---- MODULE Spec2Model ----
(***************************************************************************)
(* Model of the goipa FreeIPA client: the Client session state, the rpc    *)
(* transport primitive, the session-cookie handling and the login paths.   *)
(*                                                                         *)
(* Strings whose content the code inspects (the Set-Cookie header, the     *)
(* session id) are sequences of one-character strings; "" is <<>>.         *)
(* Strings the code only passes around are TLA+ strings.                   *)
(***************************************************************************)
EXTENDS Integers, Sequences, FiniteSets, TLC

VARIABLES client, last, received, panicked, user, ulast, procs

vars == <<client, last, received, panicked, user, ulast, procs>>

---------------------------------------------------------------------------
(* Bounds and program constants *)

\* How far around the accepted length the lengths of offered ids range.
LenSlack == 1

\* len(ipaSession) == 32 in setSessionID
SessionIDLen == 32

StatusOK == 200

StatusUnauthorized == 401

\* the HTTP statuses the server is taken to answer with
Statuses == {StatusOK, StatusUnauthorized, 500}

\* the statuses offered in answer to an rpc request
RpcStatuses == {StatusOK, 500}

\* the server error codes offered: duplicate entry, and one the client has
\* no name for
Codes == {4002, 903}

---------------------------------------------------------------------------
(* Character-sequence helpers *)

Pad(ch, n) == [i \in 1..n |-> ch]

\* strings.HasPrefix
HasPrefix(s, p) == Len(s) >= Len(p) /\ SubSeq(s, 1, Len(p)) = p

\* position of the first ch in s, 0 when there is none
IndexOf(s, ch) ==
  IF \E i \in 1..Len(s) : s[i] = ch
  THEN CHOOSE i \in 1..Len(s) : s[i] = ch /\ \A j \in 1..(i - 1) : s[j] # ch
  ELSE 0

CookieName == <<"i","p","a","_","s","e","s","s","i","o","n","=">>

MagBearerToken == <<"M","a","g","B","e","a","r","e","r","T","o","k","e","n">>

---------------------------------------------------------------------------
(* Error values.  Every error is [kind, id, msg, code]:                    *)
(*   kind "nil"      the nil error                                         *)
(*   kind "sentinel" a package-level errors.New value, identified by id    *)
(*   kind "new"      an errors.New value made at the point of failure      *)
(*   kind "fmt"      fmt.Errorf(msg, code): the text msg followed by code  *)
(*   kind "IpaError" *IpaError{Message: msg, Code: code}                   *)
(*   kind "net"      the error of httpClient.Do                            *)
(*   kind "json"     the error of json.Unmarshal                           *)
(*   kind "io"       the error of ioutil.ReadAll                           *)

Err(kind, id, msg, code) == [kind |-> kind, id |-> id, msg |-> msg, code |-> code]

NilErr == Err("nil", "", "", 0)

ErrPasswordPolicy == Err("sentinel", "ErrPasswordPolicy", "password does not conform to policy", 0)

ErrInvalidPassword == Err("sentinel", "ErrInvalidPassword", "invalid current password", 0)

ErrExpiredPassword == Err("sentinel", "ErrExpiredPassword", "password expired", 0)

ErrUnauthorized == Err("sentinel", "ErrUnauthorized", "unauthorized", 0)

ErrUserExists == Err("sentinel", "ErrUserExists", "unauthorized", 0)

ErrInvalidSetCookie == Err("new", "", "invalid set-cookie header", 0)

NetErr == Err("net", "", "", 0)

JsonErr == Err("json", "", "", 0)

ReadErr == Err("io", "", "", 0)

\* fmt.Errorf("<msg>%d", code)
Errorf(msg, code) == Err("fmt", "", msg, code)

---------------------------------------------------------------------------
(* The server's answers.  A response is                                    *)
(*   [neterr, status, setCookie, reason, body]                             *)
(* neterr: httpClient.Do failed and there is no response;                  *)
(* setCookie: the values of the Set-Cookie headers, in order;              *)
(* reason: the X-IPA-Rejection-Reason header ("" when absent);             *)
(* body: [kind, error, result] with kind "json" (a JSON object),           *)
(* "malformed" (not JSON) or "readerr" (the body cannot be read);          *)
(* error and result are JSON values, null or an object.                    *)

JsonNull == [null |-> TRUE, isnum |-> TRUE, code |-> 0, message |-> "", hasData |-> FALSE]

\* {"code": <code>, "message": <message>}; isnum FALSE: code sent as a JSON string
JsonError(isnum, code, message) ==
  [null |-> FALSE, isnum |-> isnum, code |-> code, message |-> message, hasData |-> FALSE]

\* {"summary": ..., "value": ..., "result": <data>}; hasData FALSE: no "result" key
JsonResult(hasData) ==
  [null |-> FALSE, isnum |-> TRUE, code |-> 0, message |-> "", hasData |-> hasData]

Body(kind, error, result) == [kind |-> kind, error |-> error, result |-> result]

NoBody == Body("malformed", JsonNull, JsonNull)

Bodies ==
  { Body("malformed", JsonNull, JsonNull),
    Body("readerr", JsonNull, JsonNull),
    Body("json", JsonNull, JsonResult(TRUE)),
    Body("json", JsonNull, JsonResult(FALSE)),
    Body("json", JsonNull, JsonNull),
    Body("json", JsonError(FALSE, 4002, "dup"), JsonNull),
    Body("json", JsonError(TRUE, 4002, "dup"), JsonResult(TRUE)) }
  \cup { Body("json", JsonError(TRUE, k, "msg"), JsonNull) : k \in Codes }

\* ids offered by the server: around the accepted length, and a bearer token
OfferedIDs ==
  { Pad("a", n) : n \in (SessionIDLen - LenSlack)..(SessionIDLen + LenSlack) }
  \cup { MagBearerToken \o <<"=", "x">> }

OtherCookie == <<"x", "=", "1", ";">>

\* Set-Cookie header values: "ipa_session=<id>;", one with attributes after
\* it, one without the ";", one with an empty id
CookieValues ==
  { CookieName \o id \o <<";">> : id \in OfferedIDs }
  \cup { CookieName \o Pad("b", SessionIDLen) \o <<";", "p", "a", "t", "h", "=", "/">>,
         CookieName \o Pad("a", SessionIDLen),
         CookieName \o <<";">> }

\* the Set-Cookie headers of a response: none, one, or another cookie first
SetCookies ==
  { <<>> } \cup { <<v>> : v \in CookieValues }
  \cup { <<OtherCookie, CookieName \o Pad("a", SessionIDLen) \o <<";">> >> }

\* an answer: whether the transport failed, the status, the Set-Cookie
\* headers, X-IPA-Rejection-Reason, the body and X-IPA-Pwchange-Result
Response(neterr, status, setCookie, reason, body) ==
  [neterr |-> neterr, status |-> status, setCookie |-> setCookie,
   reason |-> reason, body |-> body, pwchange |-> <<>>]

NoResponse == Response(TRUE, 0, <<>>, "", NoBody)

\* a few of the Set-Cookie headers and of the bodies, for the answers in
\* which another part of the answer is what varies
FewSetCookies ==
  { <<>>,
    << CookieName \o Pad("a", SessionIDLen) \o <<";">> >>,
    << CookieName \o Pad("a", SessionIDLen - LenSlack) \o <<";">> >> }

FewBodies ==
  { Body("json", JsonNull, JsonResult(TRUE)),
    Body("json", JsonError(TRUE, 4002, "dup"), JsonNull) }

\* the answers to an rpc request: no answer; with status 200, every
\* Set-Cookie header with a few bodies and every body with a few Set-Cookie
\* headers; with another status, a few of each
RpcResponses ==
  { NoResponse }
  \cup { Response(FALSE, StatusOK, sc, "", b) : sc \in SetCookies, b \in FewBodies }
  \cup { Response(FALSE, StatusOK, sc, "", b) : sc \in FewSetCookies, b \in Bodies }
  \cup { Response(FALSE, st, sc, "", b) :
           st \in RpcStatuses, sc \in FewSetCookies, b \in FewBodies }

\* the answers to a user_show request: with status 200, every body with a
\* few Set-Cookie headers
ShowResponses ==
  { Response(FALSE, StatusOK, sc, "", b) : sc \in FewSetCookies, b \in Bodies }

Reasons == {"", "password-expired", "invalid-password", "krbprincipal-expired"}

\* the answers to a login request: no answer; with status 200, every
\* Set-Cookie header; with status 401, every rejection reason; with any
\* status, a few reasons
LoginResponses ==
  { NoResponse }
  \cup { Response(FALSE, StatusOK, sc, "", NoBody) : sc \in SetCookies }
  \cup { Response(FALSE, StatusUnauthorized, sc, rs, NoBody) :
           sc \in FewSetCookies, rs \in Reasons }
  \cup { Response(FALSE, st, sc, rs, NoBody) :
           st \in Statuses, sc \in FewSetCookies, rs \in {"", "password-expired"} }

---------------------------------------------------------------------------
(* The client.  c = [host, realm, sessionID, sticky, krbClient];           *)
(* krbClient is TRUE when the Kerberos handle is not nil.                  *)

Host == "ipa.example.com"

Realm == "EXAMPLE.COM"

\* NewClient, NewDefaultClient, NewClientCustomHttp, NewDefaultClientWithSession
NewClient(sessionID) ==
  [host |-> Host, realm |-> Realm, sessionID |-> sessionID,
   sticky |-> TRUE, krbClient |-> FALSE]

\* the session ids NewDefaultClientWithSession is given: it checks nothing
InjectedIDs == { <<"a", "b", "c">> }

\* ipaUrl with the session test left out
ipaUrl_AlwaysAnonymous(c) == [host |-> c.host, path |-> "/ipa/json"]

\* rpc: the URL of the request
ipaUrl(c) ==
  IF Len(c.sessionID) > 0
  THEN [host |-> c.host, path |-> "/ipa/session/json"]
  ELSE [host |-> c.host, path |-> "/ipa/json"]

\* rpc: the credential of the request.  Cookie holds the values of the
\* Cookie header (none when it is not set).  Negotiate: SetSPNEGOHeader was
\* applied to the request (the Kerberos library is taken to produce the
\* header from a handle it accepted at login).
authHeader_KerberosFirst(c) ==
  IF c.krbClient
  THEN [Cookie |-> <<>>, Negotiate |-> TRUE]
  ELSE IF Len(c.sessionID) > 0
       THEN [Cookie |-> << CookieName \o c.sessionID >>, Negotiate |-> FALSE]
       ELSE [Cookie |-> <<>>, Negotiate |-> FALSE]

\* authHeader presenting the Kerberos credential next to the cookie
authHeader_Both(c) ==
  [Cookie |-> IF Len(c.sessionID) > 0 THEN << CookieName \o c.sessionID >>
              ELSE <<>>,
   Negotiate |-> c.krbClient]

\* authHeader that never sets the Cookie
authHeader_NoCookie(c) == [Cookie |-> <<>>, Negotiate |-> c.krbClient]

\* authHeader sending the bare id as the cookie
authHeader_BareCookie(c) ==
  IF Len(c.sessionID) > 0
  THEN [Cookie |-> << c.sessionID >>, Negotiate |-> FALSE]
  ELSE IF c.krbClient
       THEN [Cookie |-> <<>>, Negotiate |-> TRUE]
       ELSE [Cookie |-> <<>>, Negotiate |-> FALSE]

authHeader(c) ==
  IF Len(c.sessionID) > 0
  THEN [Cookie |-> << CookieName \o c.sessionID >>, Negotiate |-> FALSE]
  ELSE IF c.krbClient
       THEN [Cookie |-> <<>>, Negotiate |-> TRUE]
       ELSE [Cookie |-> <<>>, Negotiate |-> FALSE]

\* a request: its URL, its credential headers, and of the JSON body the
\* method and params
Request(url, header, method, params) ==
  [url |-> url, header |-> header, method |-> method, params |-> params]

NoRequest ==
  Request([host |-> "", path |-> ""], [Cookie |-> <<>>, Negotiate |-> FALSE],
          "", <<>>)

IpaClientVersion == "2.237"

\* Options: a map from names to values, a set of <<name, value>>, or nil
Options(kv) == [nil |-> FALSE, kv |-> kv]

NilOptions == [nil |-> TRUE, kv |-> {}]

\* options[key] = value
SetOption(kv, key, value) ==
  { o \in kv : o[1] # key } \cup { <<key, value>> }

\* rpc leaving a version the caller supplied in place
withVersion_KeepCallers(options) ==
  LET kv == IF options.nil THEN {} ELSE options.kv IN
  IF \E o \in kv : o[1] = "version" THEN kv
  ELSE SetOption(kv, "version", IpaClientVersion)

\* rpc: the options sent, those of the caller (none for nil) with version
withVersion(options) ==
  SetOption(IF options.nil THEN {} ELSE options.kv, "version", IpaClientVersion)

\* http.Header.Get: the first value of the header, "" when there is none
HeaderGet(values) == IF Len(values) = 0 THEN <<>> ELSE values[1]

\* ipaSessionPattern.FindStringSubmatch for ^ipa_session=([^;]+);
\* <<whole match, group 1>>, or <<>> when the pattern does not match
FindStringSubmatch(cookie) ==
  IF ~HasPrefix(cookie, CookieName)
  THEN <<>>
  ELSE LET rest == SubSeq(cookie, Len(CookieName) + 1, Len(cookie))
           k == IndexOf(rest, ";")
       IN IF k >= 2
          THEN << SubSeq(cookie, 1, Len(CookieName) + k), SubSeq(rest, 1, k - 1) >>
          ELSE <<>>

\* validSession with <= for ==
validSession_AtMost(ipaSession) ==
  Len(ipaSession) <= SessionIDLen \/ HasPrefix(ipaSession, MagBearerToken)

\* validSession with >= for ==
validSession_AtLeast(ipaSession) ==
  Len(ipaSession) >= SessionIDLen \/ HasPrefix(ipaSession, MagBearerToken)

\* setSessionID: the test that accepts a session id
validSession(ipaSession) ==
  Len(ipaSession) = SessionIDLen \/ HasPrefix(ipaSession, MagBearerToken)

\* setSessionID without the test of sticky
setSessionID_Always(c, res) ==
  LET cookie == HeaderGet(res.setCookie) IN
  IF Len(cookie) = 0
  THEN [c |-> c, err |-> NilErr, set |-> FALSE]
  ELSE LET matches == FindStringSubmatch(cookie)
           ipaSession == IF Len(matches) = 2 THEN matches[2] ELSE <<>>
       IN IF validSession(ipaSession)
          THEN [c |-> [c EXCEPT !.sessionID = ipaSession], err |-> NilErr,
                set |-> TRUE]
          ELSE [c |-> c, err |-> ErrInvalidSetCookie, set |-> FALSE]

\* setSessionID keeping a session id that is already stored
setSessionID_KeepsFirst(c, res) ==
  IF ~c.sticky \/ Len(c.sessionID) > 0
  THEN [c |-> c, err |-> NilErr, set |-> FALSE]
  ELSE LET cookie == HeaderGet(res.setCookie) IN
       IF Len(cookie) = 0
       THEN [c |-> c, err |-> NilErr, set |-> FALSE]
       ELSE LET matches == FindStringSubmatch(cookie)
                ipaSession == IF Len(matches) = 2 THEN matches[2] ELSE <<>>
            IN IF validSession(ipaSession)
               THEN [c |-> [c EXCEPT !.sessionID = ipaSession], err |-> NilErr,
                     set |-> TRUE]
               ELSE [c |-> c, err |-> ErrInvalidSetCookie, set |-> FALSE]

\* setSessionID: [c, err, set]; set records that c.sessionID was assigned
setSessionID(c, res) ==
  IF ~c.sticky
  THEN [c |-> c, err |-> NilErr, set |-> FALSE]
  ELSE LET cookie == HeaderGet(res.setCookie) IN
       IF Len(cookie) = 0
       THEN [c |-> c, err |-> NilErr, set |-> FALSE]
       ELSE LET matches == FindStringSubmatch(cookie)
                ipaSession == IF Len(matches) = 2 THEN matches[2] ELSE <<>>
            IN IF validSession(ipaSession)
               THEN [c |-> [c EXCEPT !.sessionID = ipaSession], err |-> NilErr,
                     set |-> TRUE]
               ELSE [c |-> c, err |-> ErrInvalidSetCookie, set |-> FALSE]

---------------------------------------------------------------------------
(* rpc *)

\* the Response struct json.Unmarshal fills: Error and Result are pointers
IpaResponse(isNil, hasError, code, message, hasResult, hasData) ==
  [nil |-> isNil,
   Error |-> [nil |-> ~hasError, Code |-> code, Message |-> message],
   Result |-> [nil |-> ~hasResult, hasData |-> hasData]]

NilResponse == IpaResponse(TRUE, FALSE, 0, "", FALSE, FALSE)

\* ioutil.ReadAll and json.Unmarshal(rawJson, &ipaRes): [res, err]
decodeResponse(body) ==
  IF body.kind = "readerr" THEN [res |-> NilResponse, err |-> ReadErr]
  ELSE IF body.kind = "malformed" THEN [res |-> NilResponse, err |-> JsonErr]
  ELSE IF ~body.error.null /\ ~body.error.isnum
       THEN [res |-> NilResponse, err |-> JsonErr]
  ELSE [res |-> IpaResponse(FALSE, ~body.error.null, body.error.code,
                            body.error.message, ~body.result.null,
                            body.result.hasData),
        err |-> NilErr]

\* rpcStatusError without the status
rpcStatusError_NoCode(status) ==
  Errorf("IPA RPC called failed with HTTP status code: ", 0)

\* rpc: the error for a status that is not 200
rpcStatusError(status) ==
  Errorf("IPA RPC called failed with HTTP status code: ", status)

\* asError keeping only the code the client has a name for
asError_KnownOnly(e) ==
  Err("IpaError", "", e.Message, IF e.Code = 4002 THEN e.Code ELSE 0)

\* the error value of a non-nil *IpaError
asError(e) == Err("IpaError", "", e.Message, e.Code)

\* the arguments rpc was called with, none for a call that is not an rpc
Args(params, options) == [params |-> params, options |-> options]

NoArgs == Args(<<>>, NilOptions)

\* Return with a request that failed sent once more
Return_SentAgain(c, req, res, err, set) ==
  [c |-> c, req |-> req,
   reqs |-> IF err # NilErr THEN <<req, req>> ELSE <<req>>,
   res |-> res, err |-> err, set |-> set, args |-> NoArgs]

\* what a call leaves behind: the client, the request it sent, the
\* (*Response, error) it returned, and whether it assigned c.sessionID
Return(c, req, res, err, set) ==
  [c |-> c, req |-> req, reqs |-> <<req>>, res |-> res, err |-> err,
   set |-> set, args |-> NoArgs]

\* rpc reading and decoding the body before it looks at the cookie
rpc_BodyFirst(c, method, params, options, resp) ==
  LET req == Request(ipaUrl(c), authHeader(c), method,
                     <<params, withVersion(options)>>)
      out ==
        IF resp.neterr
        THEN Return(c, req, NilResponse, NetErr, FALSE)
        ELSE IF resp.status # StatusOK
        THEN Return(c, req, NilResponse, rpcStatusError(resp.status), FALSE)
        ELSE LET d == decodeResponse(resp.body) IN
             IF d.err # NilErr
             THEN Return(c, req, NilResponse, d.err, FALSE)
             ELSE IF ~d.res.Error.nil
             THEN Return(c, req, NilResponse, asError(d.res.Error), FALSE)
             ELSE LET s == setSessionID(c, resp) IN
                  IF s.err # NilErr
                  THEN Return(s.c, req, NilResponse, s.err, s.set)
                  ELSE Return(s.c, req, d.res, NilErr, s.set)
  IN [out EXCEPT !.args = Args(params, options)]

\* rpc(method, params, options) against the server's answer resp
rpc(c, method, params, options, resp) ==
  LET req == Request(ipaUrl(c), authHeader(c), method,
                     <<params, withVersion(options)>>)
      out ==
        IF resp.neterr
        THEN Return(c, req, NilResponse, NetErr, FALSE)
        ELSE IF resp.status # StatusOK
        THEN Return(c, req, NilResponse, rpcStatusError(resp.status), FALSE)
        ELSE LET s == setSessionID(c, resp) IN
             IF s.err # NilErr
             THEN Return(s.c, req, NilResponse, s.err, s.set)
             ELSE LET d == decodeResponse(resp.body) IN
                  IF d.err # NilErr
                  THEN Return(s.c, req, NilResponse, d.err, s.set)
                  ELSE IF ~d.res.Error.nil
                  THEN Return(s.c, req, NilResponse, asError(d.res.Error), s.set)
                  ELSE Return(s.c, req, d.res, NilErr, s.set)
  IN [out EXCEPT !.args = Args(params, options)]

\* loginStatusError testing the bare 401 first
loginStatusError_UnauthorizedFirst(res) ==
  IF res.status = StatusUnauthorized
  THEN ErrUnauthorized
  ELSE IF res.status # StatusOK
  THEN Errorf("IPA login failed with HTTP status code: ", res.status)
  ELSE NilErr

\* RemoteLogin: the outcome decided by the status and the rejection reason
loginStatusError(res) ==
  IF res.status = StatusUnauthorized /\ res.reason = "password-expired"
  THEN ErrExpiredPassword
  ELSE IF res.status = StatusUnauthorized /\ res.reason = "invalid-password"
  THEN ErrInvalidPassword
  ELSE IF res.status = StatusUnauthorized
  THEN ErrUnauthorized
  ELSE IF res.status # StatusOK
  THEN Errorf("IPA login failed with HTTP status code: ", res.status)
  ELSE NilErr

\* RemoteLogin storing the session id before it looks at the status
remoteLogin_CookieFirst(c, resp) ==
  LET req == Request([host |-> c.host, path |-> "/ipa/session/login_password"],
                     [Cookie |-> <<>>, Negotiate |-> FALSE], "", <<>>) IN
  IF resp.neterr
  THEN Return(c, req, NilResponse, NetErr, FALSE)
  ELSE LET s == setSessionID(c, resp) IN
       IF loginStatusError(resp) # NilErr
       THEN Return(s.c, req, NilResponse, loginStatusError(resp), s.set)
       ELSE Return(s.c, req, NilResponse, s.err, s.set)

\* RemoteLogin(uid, passwd) against the server's answer resp
remoteLogin(c, resp) ==
  LET req == Request([host |-> c.host, path |-> "/ipa/session/login_password"],
                     [Cookie |-> <<>>, Negotiate |-> FALSE], "", <<>>) IN
  IF resp.neterr
  THEN Return(c, req, NilResponse, NetErr, FALSE)
  ELSE IF loginStatusError(resp) # NilErr
  THEN Return(c, req, NilResponse, loginStatusError(resp), FALSE)
  ELSE LET s == setSessionID(c, resp) IN
       Return(s.c, req, NilResponse, s.err, s.set)

\* User.fromJSON: the error for a result that is not valid JSON
fromJSON(hasData) ==
  IF ~hasData THEN Err("new", "", "invalid user record json", 0) ELSE NilErr

---------------------------------------------------------------------------
(* JSON values of a user record.  A value is [t, s, items, key]: t its     *)
(* type, s the characters of a string or the text of a number, items the   *)
(* elements of an array or the members of an object, key the name under    *)
(* which the value is a member of an object.  Strings are sequences of     *)
(* one-character strings.                                                  *)

Alice == <<"a", "l", "i", "c", "e">>

Bob == <<"b", "o", "b">>

JV(t, s, items) == [t |-> t, s |-> s, items |-> items, key |-> <<>>]

\* a field the object does not have: gjson's Result that does not exist
JAbsent == JV("absent", <<>>, <<>>)

JNullValue == JV("null", <<>>, <<>>)

JString(s) == JV("string", s, <<>>)

JNumber(s) == JV("number", s, <<>>)

JArray(items) == JV("array", <<>>, items)

JObject(members) == JV("object", <<>>, members)

\* the member key: v of an object
Member(key, v) == [v EXCEPT !.key = key]

DatetimeKey == <<"_","_","d","a","t","e","t","i","m","e","_","_">>

\* the text of a value as the server wrote it (without white space)
RECURSIVE Raw(_)
RECURSIVE RawItems(_, _)
Raw(v) ==
  LET name == IF v.key = <<>> THEN <<>> ELSE <<"\"">> \o v.key \o <<"\"", ":">>
      text == CASE v.t = "string" -> <<"\"">> \o v.s \o <<"\"">>
                [] v.t = "number" -> v.s
                [] v.t = "null" -> <<"n","u","l","l">>
                [] v.t = "array" -> <<"[">> \o RawItems(v.items, 1) \o <<"]">>
                [] v.t = "object" -> <<"{">> \o RawItems(v.items, 1) \o <<"}">>
                [] OTHER -> <<>>
  IN name \o text

RawItems(items, i) ==
  IF i > Len(items) THEN <<>>
  ELSE Raw(items[i]) \o (IF i < Len(items) THEN <<",">> ELSE <<>>)
       \o RawItems(items, i + 1)

\* gjson Result.Get("0"): element 0 of an array
gjsonIndex0(v) ==
  IF v.t = "array" /\ Len(v.items) > 0 THEN [v.items[1] EXCEPT !.key = <<>>]
  ELSE JAbsent

\* gjson Result.Get(key) on an object: its first member of that name
gjsonMember(v, key) ==
  IF v.t = "object" /\ \E i \in 1..Len(v.items) : v.items[i].key = key
  THEN LET i == CHOOSE i \in 1..Len(v.items) :
                  /\ v.items[i].key = key
                  /\ \A j \in 1..(i - 1) : v.items[j].key # key
       IN [v.items[i] EXCEPT !.key = <<>>]
  ELSE JAbsent

\* gjson Result.String()
gjsonString(v) ==
  CASE v.t \in {"absent", "null"} -> <<>>
    [] v.t = "string" -> v.s
    [] v.t = "number" -> v.s
    [] OTHER -> Raw(v)

\* gjson Result.ForEach: the values the iterator is called with, in order
gjsonForEach(v) ==
  CASE v.t = "absent" -> <<>>
    [] v.t \in {"array", "object"} ->
         [i \in 1..Len(v.items) |-> [v.items[i] EXCEPT !.key = <<>>]]
    [] OTHER -> <<v>>

---------------------------------------------------------------------------
(* Timestamps *)

Digits == {"0", "1", "2", "3", "4", "5", "6", "7", "8", "9"}

DigitVal(ch) ==
  CASE ch = "0" -> 0 [] ch = "1" -> 1 [] ch = "2" -> 2 [] ch = "3" -> 3
    [] ch = "4" -> 4 [] ch = "5" -> 5 [] ch = "6" -> 6 [] ch = "7" -> 7
    [] ch = "8" -> 8 [] ch = "9" -> 9

IsDigits(s) == \A i \in 1..Len(s) : s[i] \in Digits

\* the number a sequence of digits denotes
RECURSIVE atoi(_)
atoi(s) ==
  IF Len(s) = 0 THEN 0
  ELSE 10 * atoi(SubSeq(s, 1, Len(s) - 1)) + DigitVal(s[Len(s)])

RECURSIVE Pow10(_)
Pow10(n) == IF n = 0 THEN 1 ELSE 10 * Pow10(n - 1)

Time(year, month, day, hour, min, sec, nsec) ==
  [year |-> year, month |-> month, day |-> day, hour |-> hour, min |-> min,
   sec |-> sec, nsec |-> nsec]

\* time.Time{}: January 1, year 1, 00:00:00 UTC
ZeroTime == Time(1, 1, 1, 0, 0, 0, 0)

isLeap(year) == year % 4 = 0 /\ (year % 100 # 0 \/ year % 400 = 0)

daysIn(month, year) ==
  IF month = 2 THEN (IF isLeap(year) THEN 29 ELSE 28)
  ELSE IF month \in {4, 6, 9, 11} THEN 30 ELSE 31

\* the digits of a fractional second that follows the seconds: time.Parse
\* reads one, after a period, also when the layout has none
fraction(rest) ==
  IF Len(rest) >= 2 /\ rest[1] = "." /\ rest[2] \in Digits
  THEN LET n == CHOOSE n \in 2..Len(rest) :
                  /\ IsDigits(SubSeq(rest, 2, n))
                  /\ (n = Len(rest) \/ rest[n + 1] \notin Digits)
       IN SubSeq(rest, 2, n)
  ELSE <<>>

\* parseNanoseconds: at most nine digits count
nanoseconds(frac) ==
  IF Len(frac) = 0 THEN 0
  ELSE LET d == IF Len(frac) > 9 THEN SubSeq(frac, 1, 9) ELSE frac
       IN atoi(d) * Pow10(9 - Len(d))

\* time.Parse(IpaDatetimeFormat, str) with the layout 20060102150405Z:
\* [ok, t]
timeParse(str) ==
  IF Len(str) < 15 \/ ~IsDigits(SubSeq(str, 1, 14))
  THEN [ok |-> FALSE, t |-> ZeroTime]
  ELSE LET year == atoi(SubSeq(str, 1, 4))
           month == atoi(SubSeq(str, 5, 6))
           day == atoi(SubSeq(str, 7, 8))
           hour == atoi(SubSeq(str, 9, 10))
           min == atoi(SubSeq(str, 11, 12))
           sec == atoi(SubSeq(str, 13, 14))
           rest == SubSeq(str, 15, Len(str))
           frac == fraction(rest)
           tail == IF frac = <<>> THEN rest
                   ELSE SubSeq(rest, Len(frac) + 2, Len(rest))
       IN IF /\ month \in 1..12
             /\ hour < 24 /\ min < 60 /\ sec < 60
             /\ tail = <<"Z">>
             /\ day >= 1 /\ day <= daysIn(month, year)
          THEN [ok |-> TRUE,
                t |-> Time(year, month, day, hour, min, sec, nanoseconds(frac))]
          ELSE [ok |-> FALSE, t |-> ZeroTime]

\* ParseDateTime: the zero time for a string that does not parse
ParseDateTime(str) ==
  IF timeParse(str).ok THEN timeParse(str).t ELSE ZeroTime

---------------------------------------------------------------------------
(* The decoders of the older client: IpaString and IpaDateTime *)

\* the error of time.Parse
TimeErr == Err("time", "", "", 0)

\* json.Unmarshal(b, &a) with a []string: [a, err]
unmarshalStrings(b) ==
  IF b.t = "null" THEN [a |-> <<>>, err |-> NilErr]
  ELSE IF b.t # "array" THEN [a |-> <<>>, err |-> JsonErr]
  ELSE [a |-> [i \in 1..Len(b.items) |->
                 IF b.items[i].t = "string" THEN b.items[i].s ELSE <<>>],
        err |-> IF \A i \in 1..Len(b.items) : b.items[i].t \in {"string", "null"}
                THEN NilErr ELSE JsonErr]

\* IpaString.UnmarshalJSON without the test for an empty array
IpaString_UnmarshalJSON_NoLength(s, b) ==
  LET u == unmarshalStrings(b) IN
  IF u.err # NilErr \/ Len(u.a) = 0 THEN [s |-> s, err |-> JsonErr]
  ELSE [s |-> u.a[1], err |-> NilErr]

\* (s *IpaString) UnmarshalJSON(b): [s, err], s the value held afterwards
IpaString_UnmarshalJSON(s, b) ==
  LET u == unmarshalStrings(b) IN
  IF u.err # NilErr THEN [s |-> s, err |-> u.err]
  ELSE IF Len(u.a) > 0 THEN [s |-> u.a[1], err |-> NilErr]
  ELSE [s |-> s, err |-> NilErr]

\* an element of a []map[string]string: an object whose members are
\* strings, or null
isStringMap(v) ==
  \/ v.t = "null"
  \/ /\ v.t = "object"
     /\ \A i \in 1..Len(v.items) : v.items[i].t \in {"string", "null"}

\* json.Unmarshal(b, &a) with a []map[string]string: [a, err]
unmarshalMaps(b) ==
  IF b.t = "null" THEN [a |-> <<>>, err |-> NilErr]
  ELSE IF b.t # "array" THEN [a |-> <<>>, err |-> JsonErr]
  ELSE [a |-> b.items,
        err |-> IF \A i \in 1..Len(b.items) : isStringMap(b.items[i])
                THEN NilErr ELSE JsonErr]

\* (dt *IpaDateTime) UnmarshalJSON(b): [dt, err]
IpaDateTime_UnmarshalJSON(dt, b) ==
  LET u == unmarshalMaps(b) IN
  IF u.err # NilErr THEN [dt |-> dt, err |-> u.err]
  ELSE IF Len(u.a) = 0 THEN [dt |-> dt, err |-> NilErr]
  ELSE LET m == gjsonMember(u.a[1], DatetimeKey) IN
       IF m.t = "absent" THEN [dt |-> dt, err |-> NilErr]
       ELSE LET p == timeParse(m.s) IN
            IF p.ok THEN [dt |-> p.t, err |-> NilErr]
            ELSE [dt |-> dt, err |-> TimeErr]

---------------------------------------------------------------------------
(* User records *)

\* SSH public keys: one letter stands for the key, the text after a space
\* is its comment
KeyBlobs == {"A", "B"}

FingerprintSHA256(pk) == <<"S", "H", "A", "2", "5", "6", ":", pk>>

\* NewSSHAuthorizedKey(in): [k, err]
NewSSHAuthorizedKey(in) ==
  IF /\ Len(in) >= 1 /\ in[1] \in KeyBlobs
     /\ (Len(in) = 1 \/ (Len(in) >= 3 /\ in[2] = " "))
  THEN [k |-> [PublicKey |-> in[1], Comment |-> SubSeq(in, 3, Len(in)),
               Fingerprint |-> FingerprintSHA256(in[1])],
        err |-> NilErr]
  ELSE [k |-> [PublicKey |-> "", Comment |-> <<>>, Fingerprint |-> <<>>],
        err |-> Err("ssh", "", "", 0)]

User(Username, LastPasswdChange, Groups, SSHAuthKeys, AuthTypes, HbacRules, SudoRules) ==
  [Username |-> Username, LastPasswdChange |-> LastPasswdChange,
   Groups |-> Groups, SSHAuthKeys |-> SSHAuthKeys, AuthTypes |-> AuthTypes,
   HbacRules |-> HbacRules, SudoRules |-> SudoRules]

\* new(User)
NewUser == User(<<>>, ZeroTime, <<>>, <<>>, <<>>, <<>>, <<>>)

\* values in the reverse order
values_Reversed(v) ==
  [i \in 1..Len(gjsonForEach(v)) |->
     gjsonString(gjsonForEach(v)[Len(gjsonForEach(v)) + 1 - i])]

\* the strings ForEach appends for a field
values(v) == [i \in 1..Len(gjsonForEach(v)) |-> gjsonString(gjsonForEach(v)[i])]

\* the keys ForEach appends for ipasshpubkey: those that parse
RECURSIVE keys(_)
keys(vs) ==
  IF Len(vs) = 0 THEN <<>>
  ELSE LET n == NewSSHAuthorizedKey(gjsonString(vs[1])) IN
       (IF n.err = NilErr THEN <<n.k>> ELSE <<>>) \o keys(Tail(vs))

\* the object a user record is decoded from: whether the bytes are valid
\* JSON, and the fields the decoder reads
RawUser(valid, uid, krblastpwdchange, memberof_group, ipasshpubkey, ipauserauthtype, memberof_hbacrule, memberofindirect_hbacrule, memberofindirect_sudorule) ==
  [valid |-> valid, uid |-> uid, krblastpwdchange |-> krblastpwdchange,
   memberof_group |-> memberof_group, ipasshpubkey |-> ipasshpubkey,
   ipauserauthtype |-> ipauserauthtype,
   memberof_hbacrule |-> memberof_hbacrule,
   memberofindirect_hbacrule |-> memberofindirect_hbacrule,
   memberofindirect_sudorule |-> memberofindirect_sudorule]

\* the datetime fromJSON reads: ParseDateTime of <field>.0.__datetime__
datetimeOf(v) ==
  ParseDateTime(gjsonString(gjsonMember(gjsonIndex0(v), DatetimeKey)))

\* (u *User) fromJSON(raw): [u, err]
userFromJSON(u, raw) ==
  IF ~raw.valid
  THEN [u |-> u, err |-> fromJSON(FALSE)]
  ELSE [u |-> User(gjsonString(gjsonIndex0(raw.uid)),
                   datetimeOf(raw.krblastpwdchange),
                   u.Groups \o values(raw.memberof_group),
                   u.SSHAuthKeys \o keys(gjsonForEach(raw.ipasshpubkey)),
                   u.AuthTypes \o values(raw.ipauserauthtype),
                   u.HbacRules \o values(raw.memberof_hbacrule)
                     \o values(raw.memberofindirect_hbacrule),
                   u.SudoRules \o values(raw.memberofindirect_sudorule)),
        err |-> NilErr]

\* the index of the first key with the fingerprint, 0 when there is none
firstIndex(ks, fingerprint) ==
  IF \E i \in 1..Len(ks) : ks[i].Fingerprint = fingerprint
  THEN CHOOSE i \in 1..Len(ks) :
         /\ ks[i].Fingerprint = fingerprint
         /\ \A j \in 1..(i - 1) : ks[j].Fingerprint # fingerprint
  ELSE 0

\* the index of the last key with the fingerprint, 0 when there is none
lastIndex(ks, fingerprint) ==
  IF \E i \in 1..Len(ks) : ks[i].Fingerprint = fingerprint
  THEN CHOOSE i \in 1..Len(ks) :
         /\ ks[i].Fingerprint = fingerprint
         /\ \A j \in (i + 1)..Len(ks) : ks[j].Fingerprint # fingerprint
  ELSE 0

\* RemoveSSHAuthorizedKey that removes nothing
removeSSHAuthorizedKey_Keep(ks, fingerprint) == ks

\* (u *User) RemoveSSHAuthorizedKey(fingerprint): the key list afterwards
removeSSHAuthorizedKey(ks, fingerprint) ==
  LET index == firstIndex(ks, fingerprint) IN
  IF index # 0
  THEN SubSeq(ks, 1, index - 1) \o SubSeq(ks, index + 1, Len(ks))
  ELSE ks

\* AddSSHAuthorizedKey that appends whatever the list holds
addSSHAuthorizedKey_Append(ks, key) == Append(ks, key)

\* (u *User) AddSSHAuthorizedKey(key): the key list afterwards
addSSHAuthorizedKey(ks, key) ==
  LET index == lastIndex(ks, key.Fingerprint) IN
  IF index = 0 THEN Append(ks, key) ELSE [ks EXCEPT ![index] = key]

\* AddSSHAuthorizedKey of user.go: a key already there is left as it is
addSSHAuthorizedKeyOnce(ks, key) ==
  IF \E i \in 1..Len(ks) : ks[i].Fingerprint = key.Fingerprint
  THEN ks
  ELSE Append(ks, key)

---------------------------------------------------------------------------
(* The wrappers of rpc for users, and SetPassword *)

\* a call that returned before any request was sent
Unsent(c, err) ==
  [Return(c, NoRequest, NilResponse, err, FALSE) EXCEPT !.reqs = <<>>]

\* (u *User) ToOptions() of a user whose fields other than Username are empty
ToOptions ==
  { <<"mail", "">>, <<"givenname", "">>, <<"sn", "">>,
    <<"homedirectory", "">>, <<"loginshell", "">>, <<"displayname", "">>,
    <<"ipasshpubkey", "[]">>, <<"telephonenumber", "">>, <<"mobile", "">>,
    <<"userclass", "">> }

\* UserAdd answering code 4002 with the sentinel of another condition
userAddError_Unauthorized(err) ==
  IF err.kind = "IpaError" /\ err.code = 4002 THEN ErrUnauthorized ELSE err

\* UserAdd: the error returned for the error of rpc
userAddError(err) ==
  IF err.kind = "IpaError" /\ err.code = 4002 THEN ErrUserExists ELSE err

\* UserAdd(user, random): what rpc left behind, or a call that sent nothing
userAdd(c, username, random, resp) ==
  IF username = <<>>
  THEN Unsent(c, Err("new", "", "Username is required", 0))
  ELSE rpc(c, "user_add", <<username>>,
           Options(IF random THEN SetOption(ToOptions, "random", "true")
                   ELSE ToOptions),
           resp)

\* UserFind(options): the options handed to rpc
findOptions(options) ==
  Options(SetOption(SetOption(IF options.nil THEN {} ELSE options.kv,
                              "no_members", "false"),
                    "all", "true"))

\* UserDelete(preserve, stopOnError, usernames...): the options
deleteOptions(preserve, stopOnError) ==
  Options({ <<"continue", IF stopOnError THEN "false" ELSE "true">>,
            <<"preserve", IF preserve THEN "true" ELSE "false">> })

\* strings.ToLower, over the letters of the values at hand
ToLower(str) ==
  [i \in 1..Len(str) |->
     CASE str[i] = "O" -> "o" [] str[i] = "K" -> "k" [] str[i] = "P" -> "p"
       [] OTHER -> str[i]]

PolicyError == <<"p","o","l","i","c","y","-","e","r","r","o","r">>

InvalidPassword ==
  <<"i","n","v","a","l","i","d","-","p","a","s","s","w","o","r","d">>

\* SetPassword comparing the status with "ok" as it is
pwchangeError_CaseSensitive(status) ==
  IF status = PolicyError THEN ErrPasswordPolicy
  ELSE IF status = InvalidPassword THEN ErrInvalidPassword
  ELSE IF status # <<"o", "k">>
  THEN Errorf("ipa: change password failed. Unknown status: ", 0)
  ELSE NilErr

\* SetPassword: the outcome decided by the header x-ipa-pwchange-result
pwchangeError(status) ==
  IF status = PolicyError THEN ErrPasswordPolicy
  ELSE IF status = InvalidPassword THEN ErrInvalidPassword
  ELSE IF ToLower(status) # <<"o", "k">>
  THEN Errorf("ipa: change password failed. Unknown status: ", 0)
  ELSE NilErr

\* SetPassword(username, old_passwd, new_passwd, otpcode) against the
\* server's answer resp
setPassword(c, resp) ==
  LET req == Request([host |-> c.host, path |-> "/ipa/session/change_password"],
                     [Cookie |-> <<>>, Negotiate |-> FALSE], "", <<>>) IN
  IF resp.neterr
  THEN Return(c, req, NilResponse, NetErr, FALSE)
  ELSE IF resp.status # StatusOK
  THEN Return(c, req, NilResponse,
              Errorf("ipa: change password failed with HTTP status code: ",
                     resp.status), FALSE)
  ELSE Return(c, req, NilResponse, pwchangeError(resp.pwchange), FALSE)

---------------------------------------------------------------------------
(* State.  client: the Client.  last: the last call made on it: the method *)
(* (op), the client before the call (pre), the request sent if any (sent,  *)
(* req), the server's answer (resp), what rpc returned (res, err) or, for  *)
(* a call that is not an rpc, what the call returned (err), whether the    *)
(* call assigned the session id (set), the error the method returned to   *)
(* its caller (ret), and whether the call before it was ClearSession       *)
(* (afterClear), the *User the method returned (user: "nil", "input" for  *)
(* the caller's own record, "decoded" for a record read from the answer,   *)
(* "none" for a method that returns no user) and the answer to the second  *)
(* request of a method that sends two (resp2), and the Username of the    *)
(* user and the password the method was handed (username, password).      *)
(* received: the session id most recently stored     *)
(* from a Set-Cookie header and not cleared since (<<>> when none);        *)
(* last.preReceived is its value before the call.                          *)
(* panicked: a nil pointer was dereferenced and the program has stopped.   *)

Call(op, pre, r, resp, ret) ==
  [op |-> op, pre |-> pre, preReceived |-> received, sent |-> Len(r.reqs) > 0,
   req |-> r.req, reqs |-> r.reqs, args |-> r.args, resp |-> resp,
   res |-> r.res, err |-> r.err, set |-> r.set, ret |-> ret,
   afterClear |-> last.op = "ClearSession", user |-> "none",
   resp2 |-> NoResponse, username |-> <<>>, password |-> <<>>]

NoCall(op, pre, rcv, err) ==
  [op |-> op, pre |-> pre, preReceived |-> rcv, sent |-> FALSE,
   req |-> NoRequest, reqs |-> <<>>, args |-> NoArgs, resp |-> NoResponse,
   res |-> NilResponse, err |-> err, set |-> FALSE, ret |-> err,
   afterClear |-> FALSE, user |-> "none", resp2 |-> NoResponse,
   username |-> <<>>, password |-> <<>>]

\* a call that sends nothing, made on the client at hand
Local(op, err) ==
  [NoCall(op, client, received, err) EXCEPT
     !.afterClear = (last.op = "ClearSession")]

\* user: the User record at hand.  ulast: the last operation on a user
\* record or on a value of the older decoders: the operation (op), its
\* input (raw, b, key or fingerprint), the key list before it (pre) and
\* what it returned (s, dt, err).
NoRawUser ==
  RawUser(FALSE, JAbsent, JAbsent, JAbsent, JAbsent, JAbsent, JAbsent, JAbsent,
          JAbsent)

NoKey == [PublicKey |-> "", Comment |-> <<>>, Fingerprint |-> <<>>]

NoUserCall ==
  [op |-> "none", raw |-> NoRawUser, b |-> JAbsent, key |-> NoKey,
   fingerprint |-> <<>>, pre |-> <<>>, s |-> <<>>, dt |-> ZeroTime,
   err |-> NilErr]

\* procs: the calls in progress on one client.  hdr is the string header
\* of c.sessionID in memory, two words: data, the characters the pointer
\* leads to, and len.  calls gives each call its position (pc), what it has
\* read and built (url, header), the answer it got (resp), the session id
\* it is storing (id), the word it stored first (first) and what it
\* returned (err).  writer is the call that last completed a store.
Procs == {1, 2}

Header(data, len) == [data |-> data, len |-> len]

\* the string a header denotes: len characters from data on; past the end
\* of data lies memory that is not the string's
Str(hdr) ==
  [i \in 1..hdr.len |-> IF i <= Len(hdr.data) THEN hdr.data[i] ELSE "?"]

NoProc ==
  [pc |-> "start", url |-> [host |-> "", path |-> ""],
   header |-> [Cookie |-> <<>>, Negotiate |-> FALSE], resp |-> NoResponse,
   id |-> <<>>, first |-> "", err |-> NilErr,
   urlHdr |-> Header(<<>>, 0), authHdr |-> Header(<<>>, 0)]

\* clear is a ClearSession made next to the calls: its position (pc) and
\* the word it stored first.  urlHdr and authHdr of a call are the headers
\* it found at its two reads of c.sessionID.
NoProcs ==
  [hdr |-> Header(<<>>, 0), calls |-> [p \in Procs |-> NoProc], writer |-> 0,
   clear |-> [pc |-> "start", first |-> ""]]

Init ==
  /\ client \in { NewClient(id) : id \in {<<>>} \cup InjectedIDs }
  /\ received = <<>>
  /\ last = NoCall("New", client, <<>>, NilErr)
  /\ panicked = FALSE
  /\ user = NewUser
  /\ ulast = NoUserCall
  /\ procs = NoProcs

\* the options of UserShow
ShowOptions == Options({ <<"no_members", "false">>, <<"all", "true">> })

\* Ping: rpc("ping") and its result handed on
Ping ==
  /\ ~panicked
  /\ \E resp \in RpcResponses :
       LET r == rpc(client, "ping", <<>>, NilOptions, resp) IN
       /\ client' = r.c
       /\ last' = Call("Ping", client, r, resp, r.err)
       /\ received' = IF r.set THEN r.c.sessionID ELSE received
       /\ UNCHANGED panicked
  /\ UNCHANGED <<user, ulast, procs>>

\* UserShow: rpc("user_show"), then res.Result.Data is read and decoded;
\* reading it through a nil Result is a nil pointer dereference
UserShow ==
  /\ ~panicked
  /\ \E resp \in ShowResponses :
       LET r == rpc(client, "user_show", <<Alice>>, ShowOptions, resp)
           deref == r.err = NilErr /\ r.res.Result.nil
           ret == IF r.err # NilErr THEN r.err
                  ELSE IF deref THEN NilErr
                  ELSE fromJSON(r.res.Result.hasData)
       IN
       /\ client' = r.c
       /\ last' = Call("UserShow", client, r, resp, ret)
       /\ received' = IF r.set THEN r.c.sessionID ELSE received
       /\ panicked' = deref
  /\ UNCHANGED <<user, ulast, procs>>

\* a few answers to an rpc request, for the wrappers whose arguments vary
FewResponses ==
  { NoResponse,
    Response(FALSE, StatusOK, << CookieName \o Pad("a", SessionIDLen) \o <<";">> >>,
             "", Body("json", JsonNull, JsonResult(TRUE))),
    Response(FALSE, StatusOK, <<>>, "",
             Body("json", JsonError(TRUE, 4002, "dup"), JsonNull)),
    Response(FALSE, StatusOK, <<>>, "", Body("json", JsonNull, JsonNull)),
    Response(FALSE, 500, <<>>, "", NoBody) }

\* the answers to a user_add request: those to user_show, and one with
\* another status
AddResponses ==
  ShowResponses
  \cup { Response(FALSE, 500, <<>>, "",
                  Body("json", JsonError(TRUE, 4002, "dup"), JsonNull)) }

\* the calls of UserAdd: the user's name, random, and the server's answer
AddCalls ==
  { <<Alice, TRUE, resp>> : resp \in AddResponses }
  \cup { <<Alice, FALSE, resp>> : resp \in FewResponses }
  \cup { << <<>>, random, NoResponse>> : random \in BOOLEAN }

\* UserAdd: rpc("user_add") unless the user has no name; code 4002 becomes
\* ErrUserExists; then res.Result.Data is read and decoded
UserAdd ==
  /\ ~panicked
  /\ \E call \in AddCalls :
       LET username == call[1]
           random == call[2]
           resp == call[3]
           r == userAdd(client, username, random, resp)
           deref == r.err = NilErr /\ r.res.Result.nil
           ret == IF r.err # NilErr THEN userAddError(r.err)
                  ELSE IF deref THEN NilErr
                  ELSE fromJSON(r.res.Result.hasData)
       IN
       /\ client' = r.c
       /\ last' = Call("UserAdd", client, r,
                       IF Len(r.reqs) = 0 THEN NoResponse ELSE resp, ret)
       /\ received' = IF r.set THEN r.c.sessionID ELSE received
       /\ panicked' = deref
  /\ UNCHANGED <<user, ulast, procs>>

\* the options a caller hands to UserFind
CallerOptions ==
  { NilOptions, Options({}), Options({ <<"all", "false">> }),
    Options({ <<"version", "1.0">>, <<"uid", "alice">> }) }

\* the calls of UserFind: the caller's options and the server's answer
FindCalls ==
  { <<NilOptions, resp>> : resp \in FewResponses }
  \cup { <<options, Response(FALSE, StatusOK, <<>>, "",
                             Body("json", JsonNull, JsonResult(TRUE)))>> :
            options \in CallerOptions }

\* UserFind: rpc("user_find") with the caller's options, then
\* res.Result.Data is read and each record in it decoded
UserFind ==
  /\ ~panicked
  /\ \E call \in FindCalls :
       LET options == call[1]
           resp == call[2]
           r == rpc(client, "user_find", << <<>> >>, findOptions(options), resp)
           deref == r.err = NilErr /\ r.res.Result.nil
       IN
       /\ client' = r.c
       /\ last' = Call("UserFind", client, r, resp, r.err)
       /\ received' = IF r.set THEN r.c.sessionID ELSE received
       /\ panicked' = deref
  /\ UNCHANGED <<user, ulast, procs>>

\* the calls of UserDelete: the names, preserve, stopOnError and the
\* server's answer
DeleteCalls ==
  { <<usernames, FALSE, TRUE, resp>> :
      usernames \in { <<>>, <<Alice, Bob>>, <<Bob, Alice>> },
      resp \in FewResponses }
  \cup { << <<Alice>>, preserve, stopOnError, NoResponse>> :
            preserve \in BOOLEAN, stopOnError \in BOOLEAN }

\* UserDelete: rpc("user_del") with the names in the caller's order
UserDelete ==
  /\ ~panicked
  /\ \E call \in DeleteCalls :
       LET usernames == call[1]
           preserve == call[2]
           stopOnError == call[3]
           resp == call[4]
           r == rpc(client, "user_del", usernames,
                    deleteOptions(preserve, stopOnError), resp)
       IN
       /\ client' = r.c
       /\ last' = Call("UserDelete", client, r, resp, r.err)
       /\ received' = IF r.set THEN r.c.sessionID ELSE received
       /\ UNCHANGED panicked
  /\ UNCHANGED <<user, ulast, procs>>

\* values of the header x-ipa-pwchange-result
PwResults ==
  { <<>>, <<"o", "k">>, <<"O", "K">>, <<"O", "k">>, PolicyError,
    InvalidPassword, <<"P">> \o Tail(PolicyError), <<"e", "r", "r", "o", "r">> }

\* the answers to a change_password request
PwResponses ==
  { NoResponse }
  \cup { [Response(FALSE, StatusOK, <<>>, "", NoBody) EXCEPT !.pwchange = v] :
           v \in PwResults }
  \cup { [Response(FALSE, st, << CookieName \o Pad("b", SessionIDLen) \o <<";">> >>,
                    "", NoBody) EXCEPT !.pwchange = v] :
           st \in {StatusOK, 500}, v \in { <<"o", "k">>, PolicyError } }

SetPassword ==
  /\ ~panicked
  /\ \E resp \in PwResponses :
       LET r == setPassword(client, resp) IN
       /\ client' = r.c
       /\ last' = Call("SetPassword", client, r, resp, r.err)
       /\ received' = IF r.set THEN r.c.sessionID ELSE received
       /\ UNCHANGED panicked
  /\ UNCHANGED <<user, ulast, procs>>

RemoteLogin ==
  /\ ~panicked
  /\ \E resp \in LoginResponses :
       LET r == remoteLogin(client, resp) IN
       /\ client' = r.c
       /\ last' = Call("RemoteLogin", client, r, resp, r.err)
       /\ received' = IF r.set THEN r.c.sessionID ELSE received
       /\ UNCHANGED panicked
  /\ UNCHANGED <<user, ulast, procs>>

\* ClearSession leaving the session id in place
clearSession_Keep(c) == c

\* ClearSession: c.sessionID = ""
clearSession(c) == [c EXCEPT !.sessionID = <<>>]

ClearSession ==
  /\ ~panicked
  /\ client' = clearSession(client)
  /\ last' = Local("ClearSession", NilErr)
  /\ received' = <<>>
  /\ UNCHANGED panicked
  /\ UNCHANGED <<user, ulast, procs>>

StickySession ==
  /\ ~panicked
  /\ \E enable \in BOOLEAN :
       /\ client' = [client EXCEPT !.sticky = enable]
       /\ last' = Local("StickySession", NilErr)
  /\ UNCHANGED <<received, panicked>>
  /\ UNCHANGED <<user, ulast, procs>>

\* the error of a Kerberos login that fails: the configuration, the keytab
\* or the credential cache cannot be loaded, or the exchange is refused
KrbErr == Err("krb", "", "", 0)

\* a Kerberos login that drops the stored session id on success
krbLogin_FreshSession(c, ok) ==
  IF ok THEN [c EXCEPT !.krbClient = TRUE, !.sessionID = <<>>] ELSE c

\* Login, LoginWithKeytab, LoginFromCCache: on success the handle is stored
krbLogin(c, ok) == IF ok THEN [c EXCEPT !.krbClient = TRUE] ELSE c

Login ==
  /\ ~panicked
  /\ \E ok \in BOOLEAN :
       /\ client' = krbLogin(client, ok)
       /\ last' = Local("Login", IF ok THEN NilErr ELSE KrbErr)
  /\ UNCHANGED <<received, panicked>>
  /\ UNCHANGED <<user, ulast, procs>>

LoginWithKeytab ==
  /\ ~panicked
  /\ \E ok \in BOOLEAN :
       /\ client' = krbLogin(client, ok)
       /\ last' = Local("LoginWithKeytab", IF ok THEN NilErr ELSE KrbErr)
  /\ UNCHANGED <<received, panicked>>
  /\ UNCHANGED <<user, ulast, procs>>

LoginFromCCache ==
  /\ ~panicked
  /\ \E ok \in BOOLEAN :
       /\ client' = krbLogin(client, ok)
       /\ last' = Local("LoginFromCCache", IF ok THEN NilErr ELSE KrbErr)
  /\ UNCHANGED <<received, panicked>>
  /\ UNCHANGED <<user, ulast, procs>>

Next ==
  \/ Ping
  \/ UserShow
  \/ UserAdd
  \/ UserFind
  \/ UserDelete
  \/ SetPassword
  \/ RemoteLogin
  \/ ClearSession
  \/ StickySession
  \/ Login
  \/ LoginWithKeytab
  \/ LoginFromCCache

Spec == Init /\ [][Next]_vars

\* the client as NewClient, NewDefaultClient and NewClientCustomHttp build
\* it: no session id
InitNewClient ==
  /\ client = NewClient(<<>>)
  /\ received = <<>>
  /\ last = NoCall("New", client, <<>>, NilErr)
  /\ panicked = FALSE
  /\ user = NewUser
  /\ ulast = NoUserCall
  /\ procs = NoProcs

SpecNewClient == InitNewClient /\ [][Next]_vars

---------------------------------------------------------------------------
(* UserMod and UserAddWithPassword.  They are followed from the same      *)
(* initial states as the other methods, next to the calls that change the *)
(* session id and the sticky mode.                                         *)

\* the code of the server's error "no modifications to be performed"
NoModifications == 4202

\* UserMod returning every error of rpc as it is
userModError_Strict(err) == err

\* UserMod: the error returned for the error of rpc
userModError(err) ==
  IF err.kind = "IpaError" /\ err.code = NoModifications THEN NilErr ELSE err

\* UserMod(user): what rpc left behind, or a call that sent nothing
userMod(c, username, resp) ==
  IF username = <<>>
  THEN Unsent(c, Err("new", "", "Username is required", 0))
  ELSE rpc(c, "user_mod", <<username>>, Options(ToOptions), resp)

\* the answers to a user_mod request
ModResponses ==
  FewResponses
  \cup { Response(FALSE, StatusOK, sc, "",
                  Body("json", JsonError(TRUE, NoModifications, "none"), JsonNull)) :
           sc \in FewSetCookies }
  \cup { Response(FALSE, 500, <<>>, "",
                  Body("json", JsonError(TRUE, NoModifications, "none"), JsonNull)),
         Response(FALSE, StatusOK, <<>>, "",
                  Body("json", JsonError(TRUE, 903, "msg"), JsonNull)),
         Response(FALSE, StatusOK, <<>>, "",
                  Body("json", JsonNull, JsonResult(FALSE))) }

\* the calls of UserMod: the user's name and the server's answer
ModCalls ==
  { <<Alice, resp>> : resp \in ModResponses } \cup { << <<>>, NoResponse>> }

\* UserMod: rpc("user_mod") unless the user has no name; code 4202 gives the
\* caller's record back; then res.Result.Data is read and decoded
UserMod ==
  /\ ~panicked
  /\ \E call \in ModCalls :
       LET username == call[1]
           resp == call[2]
           r == userMod(client, username, resp)
           deref == r.err = NilErr /\ r.res.Result.nil
           ret == IF r.err # NilErr THEN userModError(r.err)
                  ELSE IF deref THEN NilErr
                  ELSE fromJSON(r.res.Result.hasData)
           rec == IF r.err # NilErr
                  THEN IF userModError(r.err) = NilErr THEN "input" ELSE "nil"
                  ELSE IF deref \/ ret # NilErr THEN "nil" ELSE "decoded"
       IN
       /\ client' = r.c
       /\ last' = [Call("UserMod", client, r,
                        IF Len(r.reqs) = 0 THEN NoResponse ELSE resp, ret)
                     EXCEPT !.user = rec, !.username = username]
       /\ received' = IF r.set THEN r.c.sessionID ELSE received
       /\ panicked' = deref
  /\ UNCHANGED <<user, ulast, procs>>

\* SetPassword whatever UserAdd returned
passwordAnyway(a, resp2) ==
  LET p == setPassword(a.c, resp2) IN
  [r |-> [a EXCEPT !.reqs = a.reqs \o p.reqs], ret |-> p.err,
   user |-> IF p.err = NilErr THEN "decoded" ELSE "nil",
   deref |-> a.err = NilErr /\ a.res.Result.nil]

\* UserAddWithPassword once UserAdd has answered: a is what its rpc left
\* behind.  Its error, if any, is returned; else the password is set.
passwordAfterAdd(a, resp2) ==
  LET deref == a.err = NilErr /\ a.res.Result.nil
      err == IF a.err # NilErr THEN userAddError(a.err)
             ELSE IF deref THEN NilErr
             ELSE fromJSON(a.res.Result.hasData)
  IN IF deref \/ err # NilErr
     THEN [r |-> a, ret |-> err, user |-> "nil", deref |-> deref]
     ELSE LET p == setPassword(a.c, resp2) IN
          [r |-> [a EXCEPT !.reqs = a.reqs \o p.reqs], ret |-> p.err,
           user |-> IF p.err = NilErr THEN "decoded" ELSE "nil",
           deref |-> FALSE]

\* UserAddWithPassword that sets the password whatever UserAdd returned
userAddWithPassword_Always(c, username, password, resp, resp2) ==
  IF username = <<>>
  THEN [r |-> Unsent(c, Err("new", "", "Username is required", 0)),
        ret |-> Err("new", "", "Username is required", 0), user |-> "nil",
        deref |-> FALSE]
  ELSE IF password = <<>>
  THEN [r |-> Unsent(c, Err("new", "", "password is required", 0)),
        ret |-> Err("new", "", "password is required", 0), user |-> "nil",
        deref |-> FALSE]
  ELSE passwordAnyway(userAdd(c, username, TRUE, resp), resp2)

\* UserAddWithPassword(user, password) against the answers resp to user_add
\* and resp2 to change_password: [r, ret, user, deref], r what the calls
\* left behind, ret and user what the method returns, deref a nil Result
\* read by UserAdd
userAddWithPassword(c, username, password, resp, resp2) ==
  IF username = <<>>
  THEN [r |-> Unsent(c, Err("new", "", "Username is required", 0)),
        ret |-> Err("new", "", "Username is required", 0), user |-> "nil",
        deref |-> FALSE]
  ELSE IF password = <<>>
  THEN [r |-> Unsent(c, Err("new", "", "password is required", 0)),
        ret |-> Err("new", "", "password is required", 0), user |-> "nil",
        deref |-> FALSE]
  ELSE passwordAfterAdd(userAdd(c, username, TRUE, resp), resp2)

Secret == <<"s", "3">>

\* the calls of UserAddWithPassword: the user's name, the password, and the
\* answers to user_add and to change_password
AddWithPasswordCalls ==
  { <<Alice, Secret, resp, resp2>> :
      resp \in ModResponses,
      resp2 \in { NoResponse,
                  [Response(FALSE, StatusOK, <<>>, "", NoBody)
                     EXCEPT !.pwchange = <<"O", "K">>],
                  [Response(FALSE, StatusOK, <<>>, "", NoBody)
                     EXCEPT !.pwchange = PolicyError],
                  Response(FALSE, 500, <<>>, "", NoBody) } }
  \cup { << <<>>, Secret, NoResponse, NoResponse>>,
         <<Alice, <<>>, NoResponse, NoResponse>>,
         << <<>>, <<>>, NoResponse, NoResponse>> }

\* UserAddWithPassword: UserAdd with a random password, then SetPassword
\* from the random password to the caller's
UserAddWithPassword ==
  /\ ~panicked
  /\ \E call \in AddWithPasswordCalls :
     \E o \in { userAddWithPassword(client, call[1], call[2], call[3],
                                    call[4]) } :
       LET username == call[1]
           password == call[2]
           resp == call[3]
           resp2 == call[4]
       IN
       /\ client' = o.r.c
       /\ last' = [Call("UserAddWithPassword", client, o.r,
                        IF Len(o.r.reqs) = 0 THEN NoResponse ELSE resp, o.ret)
                     EXCEPT !.user = o.user, !.username = username,
                            !.password = password,
                            !.resp2 = IF Len(o.r.reqs) = 2 THEN resp2
                                      ELSE NoResponse]
       /\ received' = IF o.r.set THEN o.r.c.sessionID ELSE received
       /\ panicked' = o.deref
  /\ UNCHANGED <<user, ulast, procs>>

NextAccounts ==
  \/ UserMod
  \/ UserAddWithPassword
  \/ RemoteLogin
  \/ ClearSession
  \/ StickySession

SpecAccounts == Init /\ [][NextAccounts]_vars

---------------------------------------------------------------------------
(* User records: the values the server may send, and the operations on a  *)
(* user record and on the values of the older decoders                     *)

Admins == <<"a", "d", "m", "i", "n", "s">>

Staff == <<"s", "t", "a", "f", "f">>

\* a single-valued field as the server may send it
ScalarFields ==
  { JAbsent, JNullValue, JString(Alice), JArray(<<>>),
    JArray(<<JString(Alice)>>), JArray(<<JString(<<>>)>>),
    JArray(<<JString(Alice), JString(Bob)>>),
    JArray(<<JNumber(<<"5">>)>>), JArray(<<JNullValue>>),
    JArray(<<JObject(<<Member(DatetimeKey, JString(Alice))>>)>>) }

\* 2023-01-15 12:00:00 UTC
Noon == <<"2","0","2","3","0","1","1","5","1","2","0","0","0","0","Z">>

Datetimes ==
  { Noon,
    <<"2","0","2","4","0","2","2","9","2","3","5","9","5","9","Z">>,
    <<"2","0","2","3","0","2","2","9","0","0","0","0","0","0","Z">>,
    <<"2","0","2","3","1","3","0","1","0","0","0","0","0","0","Z">>,
    <<"2","0","2","3","0","1","1","5","1","2","0","0","0","0",".","5","Z">>,
    <<"2","0","2","3","0","1","1","5","1","2","0","0","0","0">>,
    <<"2","0","2","3","-","0","1","-","1","5">>,
    <<>> }

\* the tagged object {"__datetime__": v}
Tagged(v) == JObject(<<Member(DatetimeKey, v)>>)

\* a datetime field as the server may send it
DatetimeFields ==
  { JArray(<<Tagged(JString(d))>>) : d \in Datetimes }
    \cup { JAbsent, JNullValue, JArray(<<>>), JArray(<<JObject(<<>>)>>),
           JArray(<<JNullValue>>), JArray(<<Tagged(JNullValue)>>),
           JArray(<<Tagged(JNumber(<<"5">>))>>), JArray(<<JString(Noon)>>),
           Tagged(JString(Noon)),
           JArray(<<Tagged(JString(Noon)), Tagged(JString(<<>>))>>) }

\* a repeated-value field as the server may send it
ListFields ==
  { JAbsent, JNullValue, JString(Admins), JArray(<<>>),
    JArray(<<JString(Admins)>>),
    JArray(<<JString(Admins), JString(Staff)>>),
    JArray(<<JString(Staff), JString(Admins)>>),
    JArray(<<JString(Admins), JString(Admins)>>),
    JArray(<<JString(Admins), JNumber(<<"5">>)>>) }

FewListFields == { JAbsent, JArray(<<JString(Staff), JString(Admins)>>) }

\* the text of a key, with and without a comment
KeyTexts == { <<"A">>, <<"A", " ", "c">>, <<"B">>, <<"B", " ", "c">> }

\* the ipasshpubkey field as the server may send it
KeyFields ==
  { JAbsent, JArray(<<>>), JArray(<<JString(<<"A">>)>>),
    JArray(<<JString(<<"B">>), JString(<<"A", " ", "c">>)>>),
    JArray(<<JString(<<"A">>), JString(<<"A", " ", "c">>)>>),
    JArray(<<JString(<<"A">>), JString(<<"z">>), JString(<<"B">>)>>) }

\* the user records the server may send: one field varies at a time, the
\* two fields HbacRules is read from vary together
RawUsers ==
  { RawUser(TRUE, uid, JAbsent, JAbsent, JAbsent, JAbsent, JAbsent, JAbsent,
            JAbsent) : uid \in ScalarFields }
  \cup
  { RawUser(TRUE, JArray(<<JString(Alice)>>), dt, JAbsent, JAbsent, JAbsent,
            JAbsent, JAbsent, JAbsent) : dt \in DatetimeFields }
  \cup
  { RawUser(TRUE, JArray(<<JString(Alice)>>), JAbsent, g, JAbsent, a, JAbsent,
            JAbsent, JAbsent) : g \in ListFields, a \in FewListFields }
  \cup
  { RawUser(TRUE, JArray(<<JString(Alice)>>), JAbsent, JAbsent, JAbsent, a,
            JAbsent, JAbsent, su) : a \in ListFields, su \in FewListFields }
  \cup
  { RawUser(TRUE, JArray(<<JString(Alice)>>), JAbsent, JAbsent, JAbsent,
            JAbsent, h, hi, su) :
      h \in FewListFields, hi \in FewListFields, su \in ListFields }
  \cup
  { RawUser(TRUE, JArray(<<JString(Alice)>>), JAbsent, JAbsent, JAbsent,
            JAbsent, h, hi, JAbsent) :
      h \in ListFields, hi \in FewListFields }
  \cup
  { RawUser(TRUE, JArray(<<JString(Alice)>>), JAbsent, JAbsent, k, JAbsent,
            JAbsent, JAbsent, JAbsent) : k \in KeyFields }
  \cup { NoRawUser }

\* the keys a caller may hold: those NewSSHAuthorizedKey returned
Keys == { NewSSHAuthorizedKey(in).k : in \in KeyTexts }

Fingerprints == { FingerprintSHA256(pk) : pk \in KeyBlobs \cup {"C"} }

InitUser ==
  /\ client = NewClient(<<>>)
  /\ received = <<>>
  /\ last = NoCall("New", client, <<>>, NilErr)
  /\ panicked = FALSE
  /\ user = NewUser
  /\ ulast = NoUserCall
  /\ procs = NoProcs

\* userRec := new(User); userRec.fromJSON(raw)
FromJSON ==
  /\ \E raw \in RawUsers :
       LET r == userFromJSON(NewUser, raw) IN
       /\ user' = r.u
       /\ ulast' = [NoUserCall EXCEPT !.op = "fromJSON", !.raw = raw,
                                      !.err = r.err]
  /\ UNCHANGED <<client, last, received, panicked, procs>>

\* json.Unmarshal calling UnmarshalJSON on the IpaString field of a new
\* UserRecord, the record at hand from then on
IpaStringUnmarshalJSON ==
  /\ \E b \in ScalarFields \ {JAbsent} :
       LET r == IpaString_UnmarshalJSON(<<>>, b) IN
       ulast' = [NoUserCall EXCEPT !.op = "IpaString.UnmarshalJSON", !.b = b,
                                   !.s = r.s, !.err = r.err]
  /\ user' = NewUser
  /\ UNCHANGED <<client, last, received, panicked, procs>>

\* json.Unmarshal calling UnmarshalJSON on the IpaDateTime field of a new
\* UserRecord, the record at hand from then on
IpaDateTimeUnmarshalJSON ==
  /\ \E b \in DatetimeFields \ {JAbsent} :
       LET r == IpaDateTime_UnmarshalJSON(ZeroTime, b) IN
       ulast' = [NoUserCall EXCEPT !.op = "IpaDateTime.UnmarshalJSON",
                                   !.b = b, !.dt = r.dt, !.err = r.err]
  /\ user' = NewUser
  /\ UNCHANGED <<client, last, received, panicked, procs>>

AddSSHAuthorizedKey ==
  /\ \E key \in Keys :
       /\ user' = [user EXCEPT !.SSHAuthKeys = addSSHAuthorizedKey(@, key)]
       /\ ulast' = [NoUserCall EXCEPT !.op = "AddSSHAuthorizedKey",
                                      !.key = key, !.pre = user.SSHAuthKeys]
  /\ UNCHANGED <<client, last, received, panicked, procs>>

\* AddSSHAuthorizedKey as user.go has it
AddSSHAuthorizedKeyOnce ==
  /\ \E key \in Keys :
       /\ user' = [user EXCEPT !.SSHAuthKeys = addSSHAuthorizedKeyOnce(@, key)]
       /\ ulast' = [NoUserCall EXCEPT !.op = "AddSSHAuthorizedKeyOnce",
                                      !.key = key, !.pre = user.SSHAuthKeys]
  /\ UNCHANGED <<client, last, received, panicked, procs>>

RemoveSSHAuthorizedKey ==
  /\ \E fingerprint \in Fingerprints :
       /\ user' = [user EXCEPT
                     !.SSHAuthKeys = removeSSHAuthorizedKey(@, fingerprint)]
       /\ ulast' = [NoUserCall EXCEPT !.op = "RemoveSSHAuthorizedKey",
                                      !.fingerprint = fingerprint,
                                      !.pre = user.SSHAuthKeys]
  /\ UNCHANGED <<client, last, received, panicked, procs>>

NextUser ==
  \/ FromJSON
  \/ IpaStringUnmarshalJSON
  \/ IpaDateTimeUnmarshalJSON
  \/ AddSSHAuthorizedKey
  \/ AddSSHAuthorizedKeyOnce
  \/ RemoveSSHAuthorizedKey

SpecUser == InitUser /\ [][NextUser]_vars

\* A user whose keys have pairwise distinct fingerprints, and the two
\* operations on the key list alone.
InitKeys ==
  /\ \E ks \in { <<>>,
                 << NewSSHAuthorizedKey(<<"A">>).k >>,
                 << NewSSHAuthorizedKey(<<"B">>).k,
                    NewSSHAuthorizedKey(<<"A", " ", "c">>).k >> } :
       user = [NewUser EXCEPT !.SSHAuthKeys = ks]
  /\ ulast = NoUserCall
  /\ client = NewClient(<<>>)
  /\ received = <<>>
  /\ last = NoCall("New", client, <<>>, NilErr)
  /\ panicked = FALSE
  /\ procs = NoProcs

NextKeys ==
  \/ AddSSHAuthorizedKey
  \/ AddSSHAuthorizedKeyOnce
  \/ RemoveSSHAuthorizedKey

SpecKeys == InitKeys /\ [][NextKeys]_vars

---------------------------------------------------------------------------
(* Properties *)

\* the methods that go through rpc, and those that send an HTTP request
RpcOps == {"Ping", "UserShow"}

HttpOps == RpcOps \cup {"RemoteLogin"}

SessionUrl == [host |-> Host, path |-> "/ipa/session/json"]

AnonymousUrl == [host |-> Host, path |-> "/ipa/json"]

\* C1: every rpc call posts to https://<host>/ipa/session/json when the
\* session id stored at the time of the call is not empty, and to
\* https://<host>/ipa/json when it is empty.
C1_EndpointSelection ==
  last.op \in RpcOps =>
    /\ last.sent
    /\ last.pre.sessionID # <<>> => last.req.url = SessionUrl
    /\ last.pre.sessionID = <<>> => last.req.url = AnonymousUrl

C1_Witness ==
  /\ last.op = "Ping"
  /\ last.pre.sessionID = Pad("a", SessionIDLen)
  /\ last.req.url = SessionUrl

\* C2: in every rpc call a stored session id gives the header
\* Cookie: ipa_session=<id> and no SPNEGO header, also when a Kerberos handle
\* is present; no session id and a Kerberos handle give a SPNEGO header and
\* no Cookie; neither gives a request, sent all the same, with neither.
C2_AuthPrecedence ==
  last.op \in RpcOps =>
    LET h == last.req.header
        pre == last.pre
    IN /\ last.sent
       /\ pre.sessionID # <<>> =>
            h.Cookie = << CookieName \o pre.sessionID >> /\ ~h.Negotiate
       /\ (pre.sessionID = <<>> /\ pre.krbClient) =>
            h.Cookie = <<>> /\ h.Negotiate
       /\ (pre.sessionID = <<>> /\ ~pre.krbClient) =>
            h.Cookie = <<>> /\ ~h.Negotiate

C2_Witness ==
  /\ last.op = "Ping"
  /\ last.pre.sessionID # <<>>
  /\ last.pre.krbClient
  /\ Len(last.req.header.Cookie) = 1
  /\ ~last.req.header.Negotiate

\* The session cookie of an answer, read as the cookie contract writes it:
\* the first Set-Cookie header is "ipa_session=<value>;..." and the value is
\* what stands between "ipa_session=" and the first ";".
FirstSetCookie(resp) == IF resp.setCookie = <<>> THEN <<>> ELSE resp.setCookie[1]

AfterName(h) == SubSeq(h, Len(CookieName) + 1, Len(h))

HasSessionCookie(resp) ==
  /\ ~resp.neterr
  /\ HasPrefix(FirstSetCookie(resp), CookieName)
  /\ \E i \in 1..Len(AfterName(FirstSetCookie(resp))) :
       AfterName(FirstSetCookie(resp))[i] = ";"

CookieValue(resp) ==
  LET rest == AfterName(FirstSetCookie(resp))
      k == CHOOSE i \in 1..Len(rest) :
             rest[i] = ";" /\ \A j \in 1..(i - 1) : rest[j] # ";"
  IN SubSeq(rest, 1, k - 1)

\* exactly 32 characters, or prefixed with MagBearerToken
ValidID(id) ==
  \/ Len(id) = 32
  \/ (Len(id) >= Len(MagBearerToken)
       /\ SubSeq(id, 1, Len(MagBearerToken)) = MagBearerToken)

CarriesValidID(resp) == HasSessionCookie(resp) /\ ValidID(CookieValue(resp))

CarriesInvalidID(resp) == HasSessionCookie(resp) /\ ~ValidID(CookieValue(resp))

\* C3, as stated: after every answer to rpc or RemoteLogin whose Set-Cookie
\* header carries a valid session id, with sticky mode on, the stored
\* session id is that id.
C3_Original ==
  (last.op \in HttpOps /\ last.pre.sticky /\ CarriesValidID(last.resp)) =>
    client.sessionID = CookieValue(last.resp)

\* C3, amended: after every answer with HTTP status 200 to rpc or
\* RemoteLogin whose first Set-Cookie header carries a valid session id,
\* with sticky mode on, the stored session id is that id, whatever was
\* stored before.
C3_SessionStored ==
  (/\ last.op \in HttpOps
   /\ last.pre.sticky
   /\ CarriesValidID(last.resp)
   /\ last.resp.status = StatusOK) =>
    client.sessionID = CookieValue(last.resp)

C3_Witness ==
  /\ last.op = "RemoteLogin"
  /\ last.pre.sticky
  /\ last.resp.status = StatusOK
  /\ CarriesValidID(last.resp)
  /\ last.pre.sessionID = Pad("a", SessionIDLen)
  /\ client.sessionID = Pad("b", SessionIDLen)

\* an error of the HTTP exchange: a status that is not 200, or a Set-Cookie
\* header that is refused
TransportError(e) ==
  \/ e = ErrInvalidSetCookie
  \/ e.kind = "fmt"
  \/ e \in {ErrExpiredPassword, ErrInvalidPassword, ErrUnauthorized}

\* C4, as stated: a cookie value that is neither 32 characters long nor
\* bearer-prefixed makes the call that received it fail with a transport
\* error and leaves the stored session id as it was.
C4_Original ==
  (last.op \in HttpOps /\ CarriesInvalidID(last.resp)) =>
    /\ TransportError(last.err)
    /\ client.sessionID = last.pre.sessionID

\* C4, amended: with sticky mode on, a cookie value that is neither 32
\* characters long nor bearer-prefixed makes the call that received it fail
\* with a transport error (under status 200, "invalid set-cookie header")
\* and leaves the stored session id as it was.
C4_MalformedCookie ==
  (last.op \in HttpOps /\ CarriesInvalidID(last.resp) /\ last.pre.sticky) =>
    /\ TransportError(last.err)
    /\ last.resp.status = StatusOK => last.err = ErrInvalidSetCookie
    /\ last.res.nil
    /\ client.sessionID = last.pre.sessionID

C4_Witness ==
  /\ last.op = "Ping"
  /\ last.pre.sticky
  /\ last.resp.status = StatusOK
  /\ CarriesInvalidID(last.resp)
  /\ Len(CookieValue(last.resp)) = SessionIDLen + 1
  /\ last.pre.sessionID = Pad("a", SessionIDLen)
  /\ last.err = ErrInvalidSetCookie
  /\ client.sessionID = last.pre.sessionID

\* C5, as stated: a valid session id T received in a Set-Cookie header by one
\* call is what the next call, an rpc, sends as Cookie: ipa_session=T to
\* /ipa/session/json.
C5_Original ==
  [][ (/\ last.op \in HttpOps
       /\ CarriesValidID(last.resp)
       /\ last'.op \in RpcOps) =>
        (/\ last'.req.url = SessionUrl
         /\ last'.req.header.Cookie =
              << CookieName \o CookieValue(last.resp) >>) ]_vars

\* C5, amended: a valid session id T stored from the Set-Cookie header of an
\* answer (status 200, sticky mode on) is what the next rpc call sends as
\* Cookie: ipa_session=T to /ipa/session/json, when no ClearSession and no
\* later stored id came in between.
C5_SessionReplay ==
  (last.op \in RpcOps /\ last.preReceived # <<>>) =>
    /\ ValidID(last.preReceived)
    /\ last.req.url = SessionUrl
    /\ last.req.header.Cookie = << CookieName \o last.preReceived >>

C5_Witness ==
  /\ last.op = "Ping"
  /\ HasPrefix(last.preReceived, MagBearerToken)
  /\ ~last.pre.sticky
  /\ last.req.url = SessionUrl
  /\ last.req.header.Cookie = << CookieName \o last.preReceived >>

\* C6: an rpc call answered with a status that is not 200 returns no
\* Response and the error that names the status; the error is decided by
\* the status alone, whatever the body and its error envelope hold.
C6_StatusError ==
  (last.op \in RpcOps /\ ~last.resp.neterr /\ last.resp.status # 200) =>
    /\ last.res.nil
    /\ last.err = Err("fmt", "", "IPA RPC called failed with HTTP status code: ",
                      last.resp.status)

C6_Witness ==
  /\ last.op = "Ping"
  /\ last.resp.status = 500
  /\ last.resp.body.kind = "json"
  /\ ~last.resp.body.error.null
  /\ last.res.nil
  /\ last.err.code = 500

\* the envelope of the answer has a populated error field with a numeric code
HasErrorEnvelope(resp) ==
  /\ ~resp.neterr
  /\ resp.status = 200
  /\ resp.body.kind = "json"
  /\ ~resp.body.error.null
  /\ resp.body.error.isnum

\* C7, as stated: an rpc call answered with status 200 and an envelope whose
\* error field is populated returns no Response and the *IpaError with the
\* server's code and message.
C7_Original ==
  (last.op \in RpcOps /\ HasErrorEnvelope(last.resp)) =>
    /\ last.res.nil
    /\ last.err = Err("IpaError", "", last.resp.body.error.message,
                      last.resp.body.error.code)

\* C7, amended: an rpc call answered with status 200 and an envelope whose
\* error field is populated, and whose Set-Cookie header is not refused
\* (sticky mode off, or no Set-Cookie header, or one carrying a valid
\* session id), returns no Response and the *IpaError with the server's code
\* and message, known or not.
C7_IpaError ==
  (/\ last.op \in RpcOps
   /\ HasErrorEnvelope(last.resp)
   /\ \/ ~last.pre.sticky
      \/ FirstSetCookie(last.resp) = <<>>
      \/ CarriesValidID(last.resp)) =>
    /\ last.res.nil
    /\ last.err = Err("IpaError", "", last.resp.body.error.message,
                      last.resp.body.error.code)

C7_Witness ==
  /\ last.op = "Ping"
  /\ HasErrorEnvelope(last.resp)
  /\ last.pre.sticky
  /\ CarriesValidID(last.resp)
  /\ last.resp.body.error.code = 903
  /\ last.err.kind = "IpaError"
  /\ last.err.code = 903

\* C8, as stated: a Response that rpc returns to its caller has no Error and
\* has a Result, so that a wrapper may read res.Result.Data.
C8_Original ==
  (last.op \in RpcOps /\ ~last.res.nil) =>
    /\ last.res.Error.nil
    /\ ~last.res.Result.nil
    /\ ~panicked

\* C9: RemoteLogin answered with 401 returns ErrExpiredPassword for the
\* reason password-expired, ErrInvalidPassword for invalid-password and
\* ErrUnauthorized for any other reason or none; answered with another
\* status that is not 200 it returns the error that names the status; the
\* three 401 errors are different values.
C9_LoginRejections ==
  (last.op = "RemoteLogin" /\ ~last.resp.neterr) =>
    LET st == last.resp.status
        rs == last.resp.reason
    IN /\ (st = 401 /\ rs = "password-expired") =>
            last.err = ErrExpiredPassword /\ last.err # ErrUnauthorized
       /\ (st = 401 /\ rs = "invalid-password") => last.err = ErrInvalidPassword
       /\ (st = 401 /\ rs \notin {"password-expired", "invalid-password"}) =>
            last.err = ErrUnauthorized
       /\ st \notin {200, 401} =>
            last.err = Err("fmt", "", "IPA login failed with HTTP status code: ", st)
       /\ Cardinality({ErrExpiredPassword, ErrInvalidPassword, ErrUnauthorized}) = 3

C9_Witness ==
  /\ last.op = "RemoteLogin"
  /\ last.resp.status = 401
  /\ last.resp.reason = "password-expired"
  /\ last.err = ErrExpiredPassword

\* C10, as stated: after a RemoteLogin that returns no error, and after a
\* Ping that returns no error on a client holding a Kerberos handle, the
\* stored session id is not empty.
C10_Original ==
  /\ (last.op = "RemoteLogin" /\ last.ret = NilErr) => client.sessionID # <<>>
  /\ (last.op = "Ping" /\ last.ret = NilErr /\ last.pre.krbClient) =>
       client.sessionID # <<>>

---------------------------------------------------------------------------
(* Two rpc calls in progress on one client.  The client has no lock:     *)
(* each call reads c.sessionID for the URL and again for the Cookie, and   *)
(* setSessionID assigns it.  The assignment of a string stores two words,  *)
(* in an order the compiler chooses, and another call may run in between.  *)

\* the session id held before the calls
PriorID == Pad("p", SessionIDLen)

\* the answers to the two calls
RaceResponses ==
  { NoResponse,
    Response(FALSE, 500, <<>>, "", NoBody) }
  \cup { Response(FALSE, StatusOK, sc, "", Body("json", JsonNull, JsonResult(TRUE))) :
           sc \in { <<>>,
                    << CookieName \o Pad("a", SessionIDLen) \o <<";">> >>,
                    << CookieName \o Pad("b", SessionIDLen) \o <<";">> >>,
                    << CookieName \o MagBearerToken \o <<"=", "x", ";">> >>,
                    << CookieName \o PriorID \o <<";">> >>,
                    << CookieName \o Pad("a", SessionIDLen - LenSlack) \o <<";">> >> } }

InitRace ==
  /\ \E id \in {<<>>, PriorID} :
       /\ client = NewClient(id)
       /\ procs = [NoProcs EXCEPT !.hdr = Header(id, Len(id))]
  /\ received = <<>>
  /\ last = NoCall("New", client, <<>>, NilErr)
  /\ panicked = FALSE
  /\ user = NewUser
  /\ ulast = NoUserCall

\* procs and client after a step of call p and a change of the header
Step(p, call, hdr, writer) ==
  /\ procs' = [procs EXCEPT !.calls[p] = call, !.hdr = hdr, !.writer = writer]
  /\ client' = [client EXCEPT !.sessionID = Str(hdr)]
  /\ UNCHANGED <<last, received, panicked, user, ulast>>

\* rpc: ipaUrl is chosen on len(c.sessionID)
ReadUrl(p) ==
  LET call == procs.calls[p] IN
  /\ call.pc = "start"
  /\ Step(p, [call EXCEPT !.pc = "url", !.url = ipaUrl(client),
                           !.urlHdr = procs.hdr],
          procs.hdr, procs.writer)

\* rpc: the Cookie or the SPNEGO header is set on c.sessionID
ReadAuth(p) ==
  LET call == procs.calls[p] IN
  /\ call.pc = "url"
  /\ Step(p, [call EXCEPT !.pc = "auth", !.header = authHeader(client),
                           !.authHdr = procs.hdr],
          procs.hdr, procs.writer)

\* rpc: c.httpClient.Do(req) returns
Send(p) ==
  LET call == procs.calls[p] IN
  /\ call.pc = "auth"
  /\ \E resp \in RaceResponses :
       Step(p, [call EXCEPT !.pc = "recv", !.resp = resp],
            procs.hdr, procs.writer)

\* rpc: the status is tested and setSessionID finds the session id to
\* store, if any; without one the body is decoded and the call returns
Receive(p) ==
  LET call == procs.calls[p]
      r == rpc(client, "ping", <<>>, NilOptions, call.resp)
  IN
  /\ call.pc = "recv"
  /\ IF r.set
     THEN Step(p, [call EXCEPT !.pc = "store", !.id = r.c.sessionID],
               procs.hdr, procs.writer)
     ELSE Step(p, [call EXCEPT !.pc = "done", !.err = r.err],
               procs.hdr, procs.writer)

\* the header with one word of the string id stored
Stored(hdr, word, id) ==
  IF word = "data" THEN Header(id, hdr.len) ELSE Header(hdr.data, Len(id))

\* setSessionID: c.sessionID = ipaSession, the first word
StoreFirst(p) ==
  LET call == procs.calls[p] IN
  /\ call.pc = "store"
  /\ \E word \in {"data", "len"} :
       Step(p, [call EXCEPT !.pc = "stored", !.first = word],
            Stored(procs.hdr, word, call.id), procs.writer)

\* setSessionID: c.sessionID = ipaSession, the other word; then the body is
\* decoded and the call returns
StoreSecond(p) ==
  LET call == procs.calls[p]
      word == IF call.first = "data" THEN "len" ELSE "data"
      r == rpc(client, "ping", <<>>, NilOptions, call.resp)
  IN
  /\ call.pc = "stored"
  /\ Step(p, [call EXCEPT !.pc = "done", !.err = r.err],
          Stored(procs.hdr, word, call.id), p)

NextRace ==
  \E p \in Procs :
    \/ ReadUrl(p)
    \/ ReadAuth(p)
    \/ Send(p)
    \/ Receive(p)
    \/ StoreFirst(p)
    \/ StoreSecond(p)

SpecRace == InitRace /\ [][NextRace]_vars

\* The same two calls on a client that may hold a Kerberos handle, and a
\* ClearSession made from another goroutine while they run.
InitRaceClear ==
  /\ \E id \in {<<>>, PriorID}, krb \in BOOLEAN :
       /\ client = [NewClient(id) EXCEPT !.krbClient = krb]
       /\ procs = [NoProcs EXCEPT !.hdr = Header(id, Len(id))]
  /\ received = <<>>
  /\ last = NoCall("New", client, <<>>, NilErr)
  /\ panicked = FALSE
  /\ user = NewUser
  /\ ulast = NoUserCall

\* procs and client after a step of the ClearSession
StepClear(clear, hdr) ==
  /\ procs' = [procs EXCEPT !.clear = clear, !.hdr = hdr]
  /\ client' = [client EXCEPT !.sessionID = Str(hdr)]
  /\ UNCHANGED <<last, received, panicked, user, ulast>>

\* ClearSession: c.sessionID = "", the first word
ClearFirst ==
  /\ procs.clear.pc = "start"
  /\ \E word \in {"data", "len"} :
       StepClear([pc |-> "stored", first |-> word],
                 Stored(procs.hdr, word, <<>>))

\* ClearSession: c.sessionID = "", the other word
ClearSecond ==
  /\ procs.clear.pc = "stored"
  /\ StepClear([procs.clear EXCEPT !.pc = "done"],
               Stored(procs.hdr,
                      IF procs.clear.first = "data" THEN "len" ELSE "data",
                      <<>>))

NextRaceClear ==
  \/ NextRace
  \/ ClearFirst
  \/ ClearSecond

SpecRaceClear == InitRaceClear /\ [][NextRaceClear]_vars

---------------------------------------------------------------------------
(* Properties of the decoders, under SpecUser *)

\* the single-element array a decoded scalar is encoded as
encodeScalar(s) == JArray(<<JString(s)>>)

IsSingleString(v) ==
  v.t = "array" /\ Len(v.items) = 1 /\ v.items[1].t = "string"

\* C11: a scalar field that is a single-element array of a string decodes to
\* that string; an empty array decodes to the empty string without an
\* error; and decoding the single-element array rebuilt from a decoded value
\* gives the same value again.  This holds for User.fromJSON and for
\* IpaString.UnmarshalJSON.
C11_ScalarDecoding ==
  /\ (ulast.op = "fromJSON" /\ ulast.raw.valid) =>
       LET f == ulast.raw.uid
           again == userFromJSON(NewUser,
                      [ulast.raw EXCEPT !.uid = encodeScalar(user.Username)])
       IN /\ ulast.err = NilErr
          /\ IsSingleString(f) => user.Username = f.items[1].s
          /\ f = JArray(<<>>) => user.Username = <<>>
          /\ again.err = NilErr /\ again.u.Username = user.Username
  /\ ulast.op = "IpaString.UnmarshalJSON" =>
       LET again == IpaString_UnmarshalJSON(<<>>, encodeScalar(ulast.s)) IN
       /\ IsSingleString(ulast.b) =>
            ulast.err = NilErr /\ ulast.s = ulast.b.items[1].s
       /\ ulast.b = JArray(<<>>) => ulast.err = NilErr /\ ulast.s = <<>>
       /\ ulast.err = NilErr => again.err = NilErr /\ again.s = ulast.s

C11_Witness ==
  /\ ulast.op = "IpaString.UnmarshalJSON"
  /\ ulast.b = JArray(<<>>)
  /\ ulast.s = <<>>
  /\ ulast.err = NilErr

\* a string in the format YYYYMMDDHHMMSSZ that names a date and a time of day
WellFormed(s) ==
  /\ Len(s) = 15 /\ IsDigits(SubSeq(s, 1, 14)) /\ s[15] = "Z"
  /\ atoi(SubSeq(s, 5, 6)) \in 1..12
  /\ atoi(SubSeq(s, 7, 8)) \in 1..daysIn(atoi(SubSeq(s, 5, 6)), atoi(SubSeq(s, 1, 4)))
  /\ atoi(SubSeq(s, 9, 10)) < 24
  /\ atoi(SubSeq(s, 11, 12)) < 60
  /\ atoi(SubSeq(s, 13, 14)) < 60

\* the timestamp a well-formed string denotes
Denoted(s) ==
  Time(atoi(SubSeq(s, 1, 4)), atoi(SubSeq(s, 5, 6)), atoi(SubSeq(s, 7, 8)),
       atoi(SubSeq(s, 9, 10)), atoi(SubSeq(s, 11, 12)),
       atoi(SubSeq(s, 13, 14)), 0)

\* a datetime field whose element 0 is an object
IsTagged(f) == f.t = "array" /\ Len(f.items) > 0 /\ f.items[1].t = "object"

\* the member __datetime__ of element 0
Inner(f) == gjsonMember(f.items[1], DatetimeKey)

\* what the claim says of a datetime field f decoded to dt with the error err
DatetimeDecoded(f, dt, err) ==
  IsTagged(f) =>
    /\ err = NilErr
    /\ (Inner(f).t = "string" /\ WellFormed(Inner(f).s)) =>
         dt = Denoted(Inner(f).s)
    /\ (Inner(f).t = "string" /\ ~timeParse(Inner(f).s).ok) => dt = ZeroTime
    /\ Inner(f).t # "string" => dt = ZeroTime

\* C12: decoding a datetime never fails: [{"__datetime__": s}] decodes to
\* the timestamp s denotes in the format YYYYMMDDHHMMSSZ; an s that does not
\* parse, or a missing inner string, gives the zero timestamp and no error.
\* This is said of User.fromJSON (ParseDateTime) and of
\* IpaDateTime.UnmarshalJSON.
C12_Original ==
  /\ (ulast.op = "fromJSON" /\ ulast.raw.valid) =>
       DatetimeDecoded(ulast.raw.krblastpwdchange, user.LastPasswdChange,
                       ulast.err)
  /\ ulast.op = "IpaDateTime.UnmarshalJSON" =>
       DatetimeDecoded(ulast.b, ulast.dt, ulast.err)

\* a repeated-value field the claim speaks of: absent, or an array of strings
Listed(f) ==
  \/ f.t = "absent"
  \/ f.t = "array" /\ \A i \in 1..Len(f.items) : f.items[i].t = "string"

\* its string elements in their order, none for an absent field
Elements(f) == [i \in 1..Len(f.items) |-> f.items[i].s]

\* C13 as stated: each repeated-value field (Groups, AuthTypes, SudoRules,
\* HbacRules) decodes to the string elements of the JSON array it is read
\* from, in their order, and to the empty sequence when the field is absent;
\* for HbacRules the array is taken to be either of the two the decoder
\* reads.
C13_Original ==
  (ulast.op = "fromJSON" /\ ulast.raw.valid) =>
    LET raw == ulast.raw IN
    /\ ulast.err = NilErr
    /\ Listed(raw.memberof_group) => user.Groups = Elements(raw.memberof_group)
    /\ Listed(raw.ipauserauthtype) =>
         user.AuthTypes = Elements(raw.ipauserauthtype)
    /\ Listed(raw.memberofindirect_sudorule) =>
         user.SudoRules = Elements(raw.memberofindirect_sudorule)
    /\ (Listed(raw.memberof_hbacrule) /\ Listed(raw.memberofindirect_hbacrule)) =>
         \/ user.HbacRules = Elements(raw.memberofindirect_hbacrule)
         \/ user.HbacRules = Elements(raw.memberof_hbacrule)

\* C13: Groups, AuthTypes and SudoRules decode to the string elements of
\* memberof_group, ipauserauthtype and memberofindirect_sudorule in their
\* order; HbacRules decodes to the elements of memberof_hbacrule followed by
\* those of memberofindirect_hbacrule; an absent field contributes nothing
\* and is no error.
C13_RepeatedValues ==
  (ulast.op = "fromJSON" /\ ulast.raw.valid) =>
    LET raw == ulast.raw IN
    /\ ulast.err = NilErr
    /\ Listed(raw.memberof_group) => user.Groups = Elements(raw.memberof_group)
    /\ Listed(raw.ipauserauthtype) =>
         user.AuthTypes = Elements(raw.ipauserauthtype)
    /\ Listed(raw.memberofindirect_sudorule) =>
         user.SudoRules = Elements(raw.memberofindirect_sudorule)
    /\ (Listed(raw.memberof_hbacrule) /\ Listed(raw.memberofindirect_hbacrule)) =>
         user.HbacRules = Elements(raw.memberof_hbacrule)
                            \o Elements(raw.memberofindirect_hbacrule)

C13_Witness ==
  /\ ulast.op = "fromJSON"
  /\ ulast.raw.memberof_hbacrule = JArray(<<JString(Admins), JString(Staff)>>)
  /\ ulast.raw.memberofindirect_hbacrule = JArray(<<JString(Staff), JString(Admins)>>)
  /\ user.HbacRules = <<Admins, Staff, Staff, Admins>>
  /\ user.Groups = <<>>

---------------------------------------------------------------------------
(* Properties of the wrappers of rpc and of SetPassword, under Spec *)

\* an answer whose Set-Cookie header setSessionID does not refuse
CookieNotRefused(pre, resp) ==
  \/ ~pre.sticky
  \/ FirstSetCookie(resp) = <<>>
  \/ CarriesValidID(resp)

\* what UserAdd returns for an error envelope
UserAddClassified ==
  LET e == last.resp.body.error IN
  /\ e.code = 4002 => last.ret = ErrUserExists
  /\ e.code # 4002 => last.ret = Err("IpaError", "", e.message, e.code)

\* no call returns ErrUserExists but a UserAdd answered with code 4002, and
\* the value differs from ErrUnauthorized
UserExistsTellsApart ==
  /\ ErrUserExists # ErrUnauthorized
  /\ last.ret = ErrUserExists =>
       /\ last.op = "UserAdd"
       /\ HasErrorEnvelope(last.resp)
       /\ last.resp.body.error.code = 4002

RpcCallers == RpcOps \cup {"UserAdd", "UserFind", "UserDelete"}

LoginUrl == [host |-> Host, path |-> "/ipa/session/login_password"]

\* C15: every invocation of rpc, RemoteLogin or SetPassword sends at most
\* one HTTP request and returns; a request that failed is not sent again,
\* and the call does not authenticate on its own: an rpc sends nothing to
\* the login URL, and no call acquires or drops a Kerberos handle.
C15_NoRetries ==
  last.op \in RpcCallers \cup {"RemoteLogin", "SetPassword"} =>
    /\ Len(last.reqs) <= 1
    /\ last.sent => last.reqs = <<last.req>>
    /\ (last.op \in RpcCallers /\ last.sent) =>
         last.req.url \in {SessionUrl, AnonymousUrl}
    /\ last.op = "RemoteLogin" => last.req.url = LoginUrl
    /\ client.krbClient = last.pre.krbClient

C15_Witness ==
  /\ last.op = "Ping"
  /\ last.pre.krbClient
  /\ last.pre.sessionID # <<>>
  /\ ~last.resp.neterr
  /\ last.resp.status = 500
  /\ last.err # NilErr
  /\ Len(last.reqs) = 1

\* the options other than version
Others(kv) == { o \in kv : o[1] # "version" }

\* C16: the body of every rpc request has params = [the positional
\* arguments in the caller's order, the options]; the options sent are the
\* caller's (none for nil) with version set to IpaClientVersion, whether the
\* caller passed nil, options without a version, or a version of its own.
C16_Params ==
  (last.op \in RpcCallers /\ last.sent) =>
    LET params == last.req.params
        caller == IF last.args.options.nil THEN {} ELSE last.args.options.kv
    IN /\ Len(params) = 2
       /\ params[1] = last.args.params
       /\ <<"version", IpaClientVersion>> \in params[2]
       /\ \A o \in params[2] : o[1] = "version" => o[2] = IpaClientVersion
       /\ Others(params[2]) = Others(caller)

C16_Witness ==
  /\ last.op = "UserFind"
  /\ last.sent
  /\ <<"version", "1.0">> \in last.args.options.kv
  /\ <<"version", "1.0">> \notin last.req.params[2]
  /\ <<"version", IpaClientVersion>> \in last.req.params[2]
  /\ <<"uid", "alice">> \in last.req.params[2]

---------------------------------------------------------------------------
(* Properties of two concurrent calls, under SpecRace *)

BothDone == \A p \in Procs : procs.calls[p].pc = "done"

\* the session id in the answer to call p
TokenOf(p) == CookieValue(procs.calls[p].resp)

\* both answers carry a valid session id, the two differ, and neither is
\* the one held before the calls
TwoNewTokens ==
  /\ \A p \in Procs :
       /\ ~procs.calls[p].resp.neterr
       /\ procs.calls[p].resp.status = StatusOK
       /\ CarriesValidID(procs.calls[p].resp)
       /\ TokenOf(p) # last.pre.sessionID
  /\ TokenOf(1) # TokenOf(2)

\* C17: when two rpc calls run concurrently on one sticky client and each
\* answer carries a different valid session cookie, then after both calls
\* the stored session id is one of the two received, the one written last;
\* it is not empty and not the one held before.
C17_Original ==
  (BothDone /\ client.sticky /\ TwoNewTokens) =>
    /\ client.sessionID \in {TokenOf(1), TokenOf(2)}
    /\ client.sessionID = TokenOf(procs.writer)
    /\ client.sessionID # <<>>
    /\ client.sessionID # last.pre.sessionID

---------------------------------------------------------------------------
(* Properties of ClearSession and SetPassword, under Spec *)

\* C18: after ClearSession the session id is empty, and the Kerberos handle,
\* the sticky flag, the host and the realm are as before; the rpc call that
\* follows goes to /ipa/json with no Cookie header, and with a SPNEGO header
\* exactly when a Kerberos handle is present.
C18_ClearSession ==
  /\ last.op = "ClearSession" =>
       /\ client.sessionID = <<>>
       /\ client.krbClient = last.pre.krbClient
       /\ client.sticky = last.pre.sticky
       /\ client.host = last.pre.host
       /\ client.realm = last.pre.realm
  /\ (last.op \in RpcCallers /\ last.sent /\ last.afterClear) =>
       /\ last.req.url = AnonymousUrl
       /\ last.req.header.Cookie = <<>>
       /\ last.req.header.Negotiate = last.pre.krbClient

C18_Witness ==
  /\ last.op = "Ping"
  /\ last.afterClear
  /\ last.preReceived = <<>>
  /\ last.pre.krbClient
  /\ last.req.url = AnonymousUrl
  /\ last.req.header.Negotiate

\* a header value equal to ok when case is ignored
IsOk(v) == Len(v) = 2 /\ v[1] \in {"o", "O"} /\ v[2] \in {"k", "K"}

UnknownStatus == Errorf("ipa: change password failed. Unknown status: ", 0)

\* C19: SetPassword decides on the header x-ipa-pwchange-result.  With
\* status 200: policy-error gives ErrPasswordPolicy, invalid-password gives
\* ErrInvalidPassword, a value equal to ok ignoring case gives success, and
\* every other value, a missing header included, gives the unknown-status
\* error.  With another status it returns an error that names the status.
C19_SetPassword ==
  (last.op = "SetPassword" /\ ~last.resp.neterr) =>
    LET v == last.resp.pwchange IN
    /\ last.sent
    /\ last.resp.status = StatusOK =>
         /\ v = PolicyError => last.ret = ErrPasswordPolicy
         /\ v = InvalidPassword => last.ret = ErrInvalidPassword
         /\ IsOk(v) => last.ret = NilErr
         /\ (v # PolicyError /\ v # InvalidPassword /\ ~IsOk(v)) =>
              last.ret = UnknownStatus
    /\ last.resp.status # StatusOK =>
         last.ret = Errorf("ipa: change password failed with HTTP status code: ",
                           last.resp.status)

C19_Witness ==
  /\ last.op = "SetPassword"
  /\ last.resp.status = StatusOK
  /\ last.resp.pwchange = <<"O", "K">>
  /\ last.ret = NilErr

HasFingerprint(ks, fingerprint) ==
  \E i \in 1..Len(ks) : ks[i].Fingerprint = fingerprint

\* the keys of ks with another fingerprint, in their order
Without(ks, fingerprint) ==
  SelectSeq(ks, LAMBDA k : k.Fingerprint # fingerprint)

AddedKeyPresent ==
  ulast.op \in {"AddSSHAuthorizedKey", "AddSSHAuthorizedKeyOnce"} =>
    HasFingerprint(user.SSHAuthKeys, ulast.key.Fingerprint)

RemovedKeyGone ==
  ulast.op = "RemoveSSHAuthorizedKey" =>
    ~HasFingerprint(user.SSHAuthKeys, ulast.fingerprint)

OtherKeysKept ==
  ulast.op = "RemoveSSHAuthorizedKey" =>
    Without(user.SSHAuthKeys, ulast.fingerprint)
      = Without(ulast.pre, ulast.fingerprint)

SingleKeyRemoved ==
  (/\ ulast.op = "RemoveSSHAuthorizedKey"
   /\ Len(ulast.pre) = 1
   /\ ulast.pre[1].Fingerprint = ulast.fingerprint) =>
    user.SSHAuthKeys = <<>>

AbsentKeyRemoved ==
  (/\ ulast.op = "RemoveSSHAuthorizedKey"
   /\ ~HasFingerprint(ulast.pre, ulast.fingerprint)) =>
    user.SSHAuthKeys = ulast.pre

\* C20: after AddSSHAuthorizedKey(k) a key with k's fingerprint is in the
\* list; after RemoveSSHAuthorizedKey(fp) no key with fingerprint fp remains
\* and the other keys keep their relative order; removing the only key of a
\* list gives the empty list, and removing an absent fingerprint changes
\* nothing.
C20_Original ==
  /\ AddedKeyPresent
  /\ RemovedKeyGone
  /\ OtherKeysKept
  /\ SingleKeyRemoved
  /\ AbsentKeyRemoved

---------------------------------------------------------------------------
(* Properties of UserMod and UserAddWithPassword, under SpecAccounts *)

\* what UserMod returns for an error envelope
UserModClassified ==
  LET e == last.resp.body.error IN
  /\ e.code = NoModifications => (last.ret = NilErr /\ last.user = "input")
  /\ e.code # NoModifications =>
       /\ last.ret = Err("IpaError", "", e.message, e.code)
       /\ last.user = "nil"

\* UserMod of a user without a name sends nothing and returns an error
NamelessRejected ==
  (last.op = "UserMod" /\ last.username = <<>>) =>
    /\ ~last.sent
    /\ last.reqs = <<>>
    /\ last.ret # NilErr
    /\ last.user = "nil"
    /\ client = last.pre

\* C21, as stated: UserMod answered with the server's code 4202 returns the
\* caller's own record and a nil error; every other server code is returned
\* as an error with no user; a user with an empty Username is refused with
\* an error before any request is sent.
C21_Original ==
  /\ (last.op = "UserMod" /\ last.sent /\ HasErrorEnvelope(last.resp)) =>
       UserModClassified
  /\ NamelessRejected

\* C21, amended: the same for an answer whose Set-Cookie header is not
\* refused (sticky mode off, no Set-Cookie header, or a valid session id).
C21_NoModifications ==
  /\ (/\ last.op = "UserMod" /\ last.sent /\ HasErrorEnvelope(last.resp)
      /\ CookieNotRefused(last.pre, last.resp)) =>
       UserModClassified
  /\ NamelessRejected

C21_Witness ==
  /\ last.op = "UserMod"
  /\ HasErrorEnvelope(last.resp)
  /\ last.resp.body.error.code = NoModifications
  /\ last.err.kind = "IpaError"
  /\ last.ret = NilErr
  /\ last.user = "input"

---------------------------------------------------------------------------
(* Properties of the session id across calls, under Spec *)

\* the body of an answer cannot be decoded, or carries an error envelope
BodyFails(resp) ==
  \/ resp.body.kind = "malformed"
  \/ resp.body.kind = "json" /\ ~resp.body.error.null

\* C22: rpc processes the session cookie after the status check and before
\* the body: with sticky mode on, a call answered with status 200 and a
\* valid Set-Cookie whose body is malformed JSON or carries a server error
\* envelope returns that error and has stored the session id of the cookie
\* all the same.
C22_CookieBeforeBody ==
  (/\ last.op \in RpcCallers /\ last.sent
   /\ last.pre.sticky
   /\ ~last.resp.neterr /\ last.resp.status = StatusOK
   /\ CarriesValidID(last.resp)
   /\ BodyFails(last.resp)) =>
    /\ last.res.nil
    /\ last.err # NilErr
    /\ last.resp.body.kind = "malformed" => last.err = JsonErr
    /\ HasErrorEnvelope(last.resp) =>
         last.err = Err("IpaError", "", last.resp.body.error.message,
                        last.resp.body.error.code)
    /\ last.set
    /\ client.sessionID = CookieValue(last.resp)

C22_Witness ==
  /\ last.op = "Ping"
  /\ last.pre.sticky
  /\ last.pre.sessionID # <<>>
  /\ last.resp.status = StatusOK
  /\ CarriesValidID(last.resp)
  /\ last.resp.body.kind = "malformed"
  /\ last.err = JsonErr
  /\ client.sessionID = CookieValue(last.resp)
  /\ client.sessionID # last.pre.sessionID

\* the call failed before the cookie of the answer was looked at
FailedBeforeCookie(resp) == resp.neterr \/ resp.status # StatusOK

\* a call that failed before cookie processing left the client as it was
TokenKept ==
  (/\ last.op \in RpcCallers \cup {"RemoteLogin"} /\ last.sent
   /\ FailedBeforeCookie(last.resp)) =>
    /\ last.err # NilErr
    /\ ~last.set
    /\ client.sessionID = last.pre.sessionID
    /\ client = last.pre

\* the rpc that follows a failed RemoteLogin on a client holding a session
\* id replays that id
ReplayedAfterFailedLogin ==
  (/\ last.op = "RemoteLogin" /\ last.ret # NilErr
   /\ last.pre.sessionID # <<>>
   /\ last'.op \in RpcCallers /\ last'.sent) =>
    /\ last'.req.url = SessionUrl
    /\ last'.req.header.Cookie = << CookieName \o last.pre.sessionID >>

\* C23: an rpc call that fails with a network error or a status other than
\* 200, and a RemoteLogin that fails with a network error, a 401 or another
\* status other than 200, leave the stored session id as it was, whatever
\* Set-Cookie header the answer carried; after a failed RemoteLogin on a
\* client holding the id T the next rpc still replays T.
C23_TokenKept == []TokenKept /\ [][ReplayedAfterFailedLogin]_vars

C23_Witness ==
  /\ last.op = "RemoteLogin"
  /\ last.resp.status = StatusUnauthorized
  /\ last.pre.sticky
  /\ CarriesValidID(last.resp)
  /\ last.ret = ErrUnauthorized
  /\ last.pre.sessionID # <<>>
  /\ CookieValue(last.resp) # last.pre.sessionID
  /\ client.sessionID = last.pre.sessionID

\* C24: on a client built by NewClient, NewDefaultClient or
\* NewClientCustomHttp, after any sequence of calls the stored session id
\* is empty, or exactly 32 characters long, or starts with MagBearerToken.
C24_TokenFormat ==
  \/ client.sessionID = <<>>
  \/ ValidID(client.sessionID)

C24_Witness ==
  /\ last.op \in RpcCallers
  /\ last.set
  /\ last.pre.sessionID # <<>>
  /\ Len(client.sessionID) # 32
  /\ SubSeq(client.sessionID, 1, Len(MagBearerToken)) = MagBearerToken

\* C25: while sticky mode is off no answer to rpc or RemoteLogin changes
\* the stored session id and no Set-Cookie value, valid or malformed, gives
\* an error; StickySession leaves the stored id in place, and rpc still
\* replays it as the Cookie.
C25_StickyOff ==
  /\ (/\ last.op \in RpcCallers \cup {"RemoteLogin"} /\ last.sent
      /\ ~last.pre.sticky) =>
       /\ ~last.set
       /\ client = last.pre
       /\ last.err # ErrInvalidSetCookie
       /\ (last.op = "RemoteLogin" /\ ~last.resp.neterr
            /\ last.resp.status = StatusOK) => last.err = NilErr
  /\ last.op = "StickySession" =>
       client.sessionID = last.pre.sessionID
  /\ (/\ last.op \in RpcCallers /\ last.sent
      /\ ~last.pre.sticky /\ last.pre.sessionID # <<>>) =>
       /\ last.req.url = SessionUrl
       /\ last.req.header.Cookie = << CookieName \o last.pre.sessionID >>

C25_Witness ==
  /\ last.op = "Ping"
  /\ ~last.pre.sticky
  /\ Len(last.pre.sessionID) = 32
  /\ last.resp.status = StatusOK
  /\ CarriesInvalidID(last.resp)
  /\ last.err = NilErr
  /\ client.sessionID = last.pre.sessionID
  /\ last.req.header.Cookie = << CookieName \o last.pre.sessionID >>

KrbOps == {"Login", "LoginWithKeytab", "LoginFromCCache"}

\* a Kerberos login leaves the session id, and a failed one the whole client
KrbLoginKeepsToken ==
  last.op \in KrbOps =>
    /\ client.sessionID = last.pre.sessionID
    /\ last.ret # NilErr => client = last.pre
    /\ last.ret = NilErr => client = [last.pre EXCEPT !.krbClient = TRUE]

\* the rpc that follows a successful Kerberos login on a client holding a
\* session id replays the id and presents no Kerberos credential
ReplayedAfterKrbLogin ==
  (/\ last.op \in KrbOps /\ last.ret = NilErr
   /\ last.pre.sessionID # <<>>
   /\ last'.op \in RpcCallers /\ last'.sent) =>
    /\ last'.req.url = SessionUrl
    /\ last'.req.header.Cookie = << CookieName \o last.pre.sessionID >>
    /\ ~last'.req.header.Negotiate

\* once ClearSession was called, the next rpc presents the credential
PresentedAfterClear ==
  (/\ last.op \in RpcCallers /\ last.sent /\ last.afterClear
   /\ last.pre.krbClient) =>
    /\ last.req.url = AnonymousUrl
    /\ last.req.header.Cookie = <<>>
    /\ last.req.header.Negotiate

\* C26: Login, LoginWithKeytab and LoginFromCCache never change the stored
\* session id, whether they succeed or fail; after a successful one on a
\* client holding the id T the next rpc goes to /ipa/session/json with
\* Cookie T and does not present the Kerberos credential, which it does
\* once ClearSession has been called.
C26_KrbLoginKeepsToken ==
  /\ [](KrbLoginKeepsToken /\ PresentedAfterClear)
  /\ [][ReplayedAfterKrbLogin]_vars

C26_Witness ==
  /\ last.op = "LoginWithKeytab"
  /\ last.ret = NilErr
  /\ ~last.pre.krbClient
  /\ client.krbClient
  /\ Len(last.pre.sessionID) = 32
  /\ client.sessionID = last.pre.sessionID

\* C27: with no other call running on the client, every request rpc builds
\* goes to /ipa/session/json exactly when it carries the header
\* Cookie: ipa_session=..., and never carries both that Cookie and a SPNEGO
\* header.
C27_ConsistentRequest ==
  (last.op \in RpcCallers /\ last.sent) =>
    LET h == last.req.header IN
    /\ last.req.url \in {SessionUrl, AnonymousUrl}
    /\ last.req.url = SessionUrl <=>
         (Len(h.Cookie) = 1 /\ HasPrefix(h.Cookie[1], CookieName))
    /\ last.req.url = AnonymousUrl <=> h.Cookie = <<>>
    /\ ~(h.Cookie # <<>> /\ h.Negotiate)
    /\ \A i \in 1..Len(last.reqs) : last.reqs[i] = last.req

C27_Witness ==
  /\ last.op = "UserDelete"
  /\ last.pre.krbClient
  /\ last.pre.sessionID # <<>>
  /\ last.req.url = SessionUrl
  /\ last.req.header.Cookie # <<>>
  /\ ~last.req.header.Negotiate

---------------------------------------------------------------------------
(* Properties of calls racing with ClearSession, under SpecRaceClear *)

\* call p has sent its request
SentRequest(p) == procs.calls[p].pc \in {"recv", "store", "stored", "done"}

\* the request of call p goes to the session endpoint without the Cookie
SessionWithoutCookie(p) ==
  /\ procs.calls[p].url = SessionUrl
  /\ procs.calls[p].header.Cookie = <<>>

\* the request of call p goes to the anonymous endpoint with the Cookie
AnonymousWithCookie(p) ==
  /\ procs.calls[p].url = AnonymousUrl
  /\ procs.calls[p].header.Cookie # <<>>

\* c.sessionID was stored to between the two reads of call p
StoredBetweenReads(p) == procs.calls[p].urlHdr # procs.calls[p].authHdr

\* C28: rpc reads c.sessionID once for the URL and once for the credential,
\* with nothing to keep a ClearSession or the cookie update of another call
\* from running in between.  A request to /ipa/session/json without the
\* Cookie, or to /ipa/json with it, is sent only when such a store came
\* between the two reads, and then it can be sent.
C28_TornRequest ==
  \A p \in Procs :
    SentRequest(p) =>
      /\ (SessionWithoutCookie(p) \/ AnonymousWithCookie(p)) =>
           StoredBetweenReads(p)
      /\ SessionWithoutCookie(p) =>
           (procs.calls[p].urlHdr.len > 0 /\ procs.calls[p].authHdr.len = 0)
      /\ AnonymousWithCookie(p) =>
           (procs.calls[p].urlHdr.len = 0 /\ procs.calls[p].authHdr.len > 0)

\* both happen: one request to /ipa/session/json carrying SPNEGO and no
\* Cookie, the other to /ipa/json carrying the Cookie
C28_Witness ==
  /\ SentRequest(1) /\ SentRequest(2)
  /\ SessionWithoutCookie(1)
  /\ procs.calls[1].header.Negotiate
  /\ AnonymousWithCookie(2)
  /\ procs.clear.pc = "done"

ChangePasswordUrl == [host |-> Host, path |-> "/ipa/session/change_password"]

\* UserAdd failed: rpc returned an error, or the record cannot be decoded
AddFailed == last.err # NilErr \/ ~last.res.Result.hasData

\* the answer to change_password is a failure
PwFailed(resp) ==
  resp.neterr \/ resp.status # StatusOK \/ ~IsOk(resp.pwchange)

\* C29: UserAddWithPassword is user_add with a random password, then
\* SetPassword.  With an empty username or an empty password it returns an
\* error and sends nothing; when user_add fails SetPassword is not sent;
\* when user_add succeeds and SetPassword fails it returns no user and the
\* error, and sends no request that would delete the account.
C29_TwoSteps ==
  (last.op = "UserAddWithPassword" /\ ~panicked) =>
    /\ (last.username = <<>> \/ last.password = <<>>) =>
         /\ last.reqs = <<>>
         /\ ~last.sent
         /\ last.ret # NilErr
         /\ last.user = "nil"
         /\ client = last.pre
    /\ (last.username # <<>> /\ last.password # <<>>) =>
         /\ Len(last.reqs) >= 1
         /\ last.reqs[1].method = "user_add"
         /\ last.reqs[1].params[1] = <<last.username>>
         /\ <<"random", "true">> \in last.reqs[1].params[2]
         /\ AddFailed =>
              /\ Len(last.reqs) = 1
              /\ last.ret # NilErr
              /\ last.user = "nil"
         /\ ~AddFailed =>
              /\ Len(last.reqs) = 2
              /\ last.reqs[2].url = ChangePasswordUrl
              /\ PwFailed(last.resp2) =>
                   (last.ret # NilErr /\ last.user = "nil")
              /\ ~PwFailed(last.resp2) =>
                   (last.ret = NilErr /\ last.user = "decoded")
    /\ \A i \in 1..Len(last.reqs) : last.reqs[i].method # "user_del"

C29_Witness ==
  /\ last.op = "UserAddWithPassword"
  /\ ~AddFailed
  /\ Len(last.reqs) = 2
  /\ last.resp2.pwchange = PolicyError
  /\ last.ret = ErrPasswordPolicy
  /\ last.user = "nil"

---------------------------------------------------------------------------
(* Properties of the key list, under SpecKeys *)

DistinctFingerprints(ks) ==
  \A i, j \in 1..Len(ks) : ks[i].Fingerprint = ks[j].Fingerprint => i = j

AddOps == {"AddSSHAuthorizedKey", "AddSSHAuthorizedKeyOnce"}

\* C30: from a key list with pairwise distinct fingerprints, the empty list
\* included, every sequence of AddSSHAuthorizedKey and
\* RemoveSSHAuthorizedKey calls leaves the fingerprints pairwise distinct;
\* adding a key whose fingerprint is in the list does not grow the list.
C30_DistinctFingerprints ==
  /\ DistinctFingerprints(user.SSHAuthKeys)
  /\ (ulast.op \in AddOps
       /\ HasFingerprint(ulast.pre, ulast.key.Fingerprint)) =>
       Len(user.SSHAuthKeys) = Len(ulast.pre)
  /\ (ulast.op \in AddOps
       /\ ~HasFingerprint(ulast.pre, ulast.key.Fingerprint)) =>
       Len(user.SSHAuthKeys) = Len(ulast.pre) + 1
  /\ ulast.op = "RemoveSSHAuthorizedKey" =>
       Len(user.SSHAuthKeys) <= Len(ulast.pre)

C30_Witness ==
  /\ ulast.op = "AddSSHAuthorizedKey"
  /\ Len(ulast.pre) = 2
  /\ HasFingerprint(ulast.pre, ulast.key.Fingerprint)
  /\ \A i \in 1..Len(ulast.pre) : ulast.pre[i] # ulast.key
  /\ Len(user.SSHAuthKeys) = 2
  /\ \E i \in 1..2 : user.SSHAuthKeys[i] = ulast.key

====
